---- MODULE Spec2Model ----
(***************************************************************************)
(* Clue access-state resolver and quest-progress tracker of lost-souls.    *)
(*                                                                         *)
(* Skill identifiers are JavaScript strings that the code parses with a    *)
(* regular expression, so they are modelled as tuples of one-character     *)
(* strings ("art_2" is <<"a","r","t","_","2">>).  A value that is not a     *)
(* string is a one-element tuple holding a token that is no character.     *)
(* Identifiers that the code only compares for equality (clue ids, act     *)
(* keys, quest hashtags, character ids) are plain strings.  A property     *)
(* that is undefined in JavaScript is a field missing from the record.     *)
(***************************************************************************)
EXTENDS Integers, Sequences, FiniteSets, TLC

VARIABLES
  call,          \* inputs of the pure function under test
  ret,           \* its result: [done |-> FALSE] until the function has run
  localStorage,  \* the browser store: key -> stored value, absent keys missing
  page,          \* the clue page that is open, if any
  event          \* the last handler that ran and what it found

vars == <<call, ret, localStorage, page, event>>

----------------------------------------------------------------------------
(* Bounds of the checked input spaces *)

MaxReq == 2      \* longest required-skill list drawn
MaxUser == 2     \* longest user-skill list drawn
MaxRoster == 3   \* longest roster drawn
MaxMissing == 3  \* longest missing-skill list a message is built for
MaxTimers == 2   \* selection checks and failure resets of one lock pending at once

----------------------------------------------------------------------------
(* JavaScript values *)

Digits == {"0", "1", "2", "3", "4", "5", "6", "7", "8", "9"}
DigitChars == <<"0", "1", "2", "3", "4", "5", "6", "7", "8", "9">>
LineTerminators == {"\n", "\r"}

JsNull == <<"null">>
JsNumber == <<"number">>
NonStrings == {JsNull, JsNumber}

\* typeof v === 'string'
IsString(v) == v \notin NonStrings

\* !v for the values a skill list can hold
Falsy(v) == v = <<>> \/ v = JsNull

Has(r, f) == f \in DOMAIN r

Includes(arr, x) == \E i \in 1..Len(arr) : arr[i] = x

Push(arr, x) == Append(arr, x)

\* arr.filter(Boolean)
RECURSIVE FilterBoolean(_)
FilterBoolean(arr) ==
  IF arr = <<>> THEN <<>>
  ELSE IF Falsy(Head(arr)) THEN FilterBoolean(Tail(arr))
       ELSE <<Head(arr)>> \o FilterBoolean(Tail(arr))

SeqsUpTo(S, n) == UNION {[1..k -> S] : k \in 0..n}

----------------------------------------------------------------------------
(* src/lib/skills.js *)

DigitVal(ch) == (CHOOSE i \in 1..10 : DigitChars[i] = ch) - 1

RECURSIVE parseInt(_)
parseInt(ds) ==
  IF Len(ds) = 0 THEN 0
  ELSE 10 * parseInt(SubSeq(ds, 1, Len(ds) - 1)) + DigitVal(ds[Len(ds)])

AllDigits(s) == Len(s) > 0 /\ \A i \in 1..Len(s) : s[i] \in Digits

\* /^(.+?)(?:_(\d+))?$/ with the first group covering s[1..k]: the rest is
\* either empty or an underscore followed by digits up to the end.
MatchesAt(s, k) ==
  \/ k = Len(s)
  \/ /\ k + 1 < Len(s)
     /\ s[k + 1] = "_"
     /\ AllDigits(SubSeq(s, k + 2, Len(s)))

\* The lazy (.+?) stops at the shortest first group that lets the rest match.
BaseLen(s) ==
  CHOOSE k \in 1..Len(s) : MatchesAt(s, k) /\ \A j \in 1..(k - 1) : ~MatchesAt(s, j)

ParsedNull == [isNull |-> TRUE]

parseSkill_Lexicographic(skill) ==
  IF Falsy(skill) \/ ~IsString(skill) THEN ParsedNull
  ELSE IF \E i \in 1..Len(skill) : skill[i] \in LineTerminators THEN ParsedNull
  ELSE LET k == BaseLen(skill) IN
       [isNull |-> FALSE,
        base |-> SubSeq(skill, 1, k),
        level |-> IF k = Len(skill) THEN 0 ELSE DigitVal(skill[k + 2])]

parseSkill_NoInputGuard(skill) ==
  IF Falsy(skill) \/ ~IsString(skill)
  THEN [isNull |-> FALSE, base |-> skill, level |-> 0]
  ELSE IF \E i \in 1..Len(skill) : skill[i] \in LineTerminators THEN ParsedNull
  ELSE LET k == BaseLen(skill) IN
       [isNull |-> FALSE,
        base |-> SubSeq(skill, 1, k),
        level |-> IF k = Len(skill) THEN 0
                  ELSE parseInt(SubSeq(skill, k + 2, Len(skill)))]

parseSkill(skill) ==
  IF Falsy(skill) \/ ~IsString(skill) THEN ParsedNull
  ELSE IF \E i \in 1..Len(skill) : skill[i] \in LineTerminators THEN ParsedNull
  ELSE LET k == BaseLen(skill) IN
       [isNull |-> FALSE,
        base |-> SubSeq(skill, 1, k),
        level |-> IF k = Len(skill) THEN 0
                  ELSE parseInt(SubSeq(skill, k + 2, Len(skill)))]

hasSkillAccess_NoEmptyGuard(requiredSkills, userSkills) ==
  \E i \in 1..Len(requiredSkills) :
    LET req == parseSkill(requiredSkills[i]) IN
    /\ ~req.isNull
    /\ \E j \in 1..Len(userSkills) :
         LET user == parseSkill(userSkills[j]) IN
         ~user.isNull /\ user.base = req.base /\ user.level >= req.level

hasSkillAccess_AllRequired(requiredSkills, userSkills) ==
  IF Len(requiredSkills) = 0 THEN TRUE
  ELSE \A i \in 1..Len(requiredSkills) :
         LET req == parseSkill(requiredSkills[i]) IN
         /\ ~req.isNull
         /\ \E j \in 1..Len(userSkills) :
              LET user == parseSkill(userSkills[j]) IN
              ~user.isNull /\ user.base = req.base /\ user.level >= req.level

hasSkillAccess(requiredSkills, userSkills) ==
  IF Len(requiredSkills) = 0 THEN TRUE
  ELSE \E i \in 1..Len(requiredSkills) :
         LET req == parseSkill(requiredSkills[i]) IN
         /\ ~req.isNull
         /\ \E j \in 1..Len(userSkills) :
              LET user == parseSkill(userSkills[j]) IN
              ~user.isNull /\ user.base = req.base /\ user.level >= req.level

\* SKILL_SUFFIX, in the order Object.entries walks it
SKILL_SUFFIX ==
  << [level |-> "expert", suffix |-> <<"_", "2">>],
     [level |-> "basic", suffix |-> <<"_", "1">>],
     [level |-> "personal", suffix |-> <<>>] >>

\* A roster's skills are a flat array, [isArray |-> TRUE, items |-> ...], or
\* the nested object, [isArray |-> FALSE] with any of expert, basic, personal.
RECURSIVE FlatMapLevels(_, _)
FlatMapLevels(entries, skills) ==
  IF entries = <<>> THEN <<>>
  ELSE LET entry == Head(entries)
           listed == IF entry.level \in DOMAIN skills THEN skills[entry.level] ELSE <<>>
           kept == FilterBoolean(listed)
       IN [i \in 1..Len(kept) |-> kept[i] \o entry.suffix]
            \o FlatMapLevels(Tail(entries), skills)

convertSkills_SwappedSuffixes(skills) ==
  IF skills.isArray THEN FilterBoolean(skills.items)
  ELSE FlatMapLevels(<< [level |-> "expert", suffix |-> <<"_", "1">>],
                        [level |-> "basic", suffix |-> <<"_", "2">>],
                        [level |-> "personal", suffix |-> <<>>] >>, skills)

convertSkills(skills) ==
  IF skills.isArray THEN FilterBoolean(skills.items)
  ELSE FlatMapLevels(SKILL_SUFFIX, skills)

\* title.replace(/^The /, ''): a title is the tuple of its characters.
StripThe(title) ==
  IF Len(title) >= 4 /\ SubSeq(title, 1, 4) = <<"T", "h", "e", " ">>
    THEN SubSeq(title, 5, Len(title))
    ELSE title

\* char.title || char.id
TitleOrId(char) ==
  IF Has(char, "title") /\ char.title # <<>> THEN char.title ELSE char.id

IsCandidate_AnyWithSkills(char) == Has(char, "skills")

\* char.is_player !== false && char.skills
IsCandidate(char) ==
  /\ ~(Has(char, "is_player") /\ char.is_player = FALSE)
  /\ Has(char, "skills")

RECURSIVE FilterCharacters(_, _)
FilterCharacters(characters, clueSkills) ==
  IF characters = <<>> THEN <<>>
  ELSE LET char == Head(characters)
           rest == FilterCharacters(Tail(characters), clueSkills)
       IN IF IsCandidate(char) /\ hasSkillAccess(clueSkills, convertSkills(char.skills))
            THEN <<char>> \o rest
            ELSE rest

charactersWithAccess_ReverseOrder(clueSkills, characters) ==
  IF Len(clueSkills) = 0 THEN <<>>
  ELSE LET kept == FilterCharacters(characters, clueSkills)
       IN [i \in 1..Len(kept) |-> StripThe(TitleOrId(kept[Len(kept) + 1 - i]))]

charactersWithAccess(clueSkills, characters) ==
  IF Len(clueSkills) = 0 THEN <<>>
  ELSE LET kept == FilterCharacters(characters, clueSkills)
       IN [i \in 1..Len(kept) |-> StripThe(TitleOrId(kept[i]))]

----------------------------------------------------------------------------
(* src/js/clue-access.js: message composition *)
(* A message is the sequence of its text pieces; a wrapper template holds   *)
(* the piece "{requirements}" where the requirement text goes.              *)

Placeholder == "{requirements}"
FixedFallbackMessage == <<"You don't have the required skills to access this clue.">>
FallbackPhrase == "the required expertise"
HardcodedWrappers == <<  <<"The meaning here escapes you. You'd need ", Placeholder, ".">>  >>

\* randomFn(array): the picker is the sequence of indices it draws, one per
\* call; Math.random may draw any of them, a test stub draws the first.
Pick(array, draw) == array[(draw % Len(array)) + 1]

joinWithOr(items) ==
  IF Len(items) = 0 THEN <<>>
  ELSE IF Len(items) = 1 THEN <<items[1]>>
  ELSE IF Len(items) = 2 THEN <<items[1], " or ", items[2]>>
  ELSE LET last == items[Len(items)]
           rest == SubSeq(items, 1, Len(items) - 1)
           RECURSIVE JoinComma(_)
           JoinComma(xs) ==
             IF Len(xs) = 1 THEN <<xs[1]>>
             ELSE <<Head(xs), ", ">> \o JoinComma(Tail(xs))
       IN JoinComma(rest) \o <<", or ", last>>

\* String.prototype.replace with a string pattern: the first occurrence only.
RECURSIVE Replace(_, _, _)
Replace(text, piece, by) ==
  IF text = <<>> THEN <<>>
  ELSE IF Head(text) = piece THEN by \o Tail(text)
  ELSE <<Head(text)>> \o Replace(Tail(text), piece, by)

\* The phrase list a parsed skill selects, <<>> when it selects none.
PhraseArray(parsed, skill_phrases) ==
  IF parsed.isNull THEN <<>>
  ELSE IF parsed.base \notin DOMAIN skill_phrases THEN <<>>
  ELSE LET skillPhrases == skill_phrases[parsed.base] IN
       IF parsed.level > 0
         THEN IF skillPhrases.isArray THEN <<>>
              ELSE IF parsed.level \in DOMAIN skillPhrases.levels
                     THEN skillPhrases.levels[parsed.level]
                     ELSE <<>>
         ELSE IF skillPhrases.isArray THEN skillPhrases.items ELSE <<>>

\* The loop over missingSkills; n counts the picker calls made before.
RECURSIVE CollectPhrases(_, _, _, _)
CollectPhrases(missingSkills, skill_phrases, random, n) ==
  IF missingSkills = <<>> THEN <<>>
  ELSE LET phraseArray == PhraseArray(parseSkill(Head(missingSkills)), skill_phrases) IN
       IF Len(phraseArray) > 0
         THEN <<Pick(phraseArray, random[n + 1])>>
                \o CollectPhrases(Tail(missingSkills), skill_phrases, random, n + 1)
         ELSE CollectPhrases(Tail(missingSkills), skill_phrases, random, n)

buildSkillLockedMessage_PlainCommas(missingSkills, clueType, noAccessMessages, parseSkillFn, randomFn) ==
  IF ~Has(noAccessMessages, "skill_phrases") \/ ~Has(noAccessMessages, "wrappers")
    THEN FixedFallbackMessage
  ELSE IF parseSkillFn = "none" THEN FixedFallbackMessage
  ELSE LET picked == CollectPhrases(missingSkills, noAccessMessages.skill_phrases, randomFn, 0)
           phrases == IF Len(picked) = 0 THEN <<FallbackPhrase>> ELSE picked
           table == noAccessMessages.wrappers
           wrappers ==
             IF clueType \in DOMAIN table /\ Len(table[clueType]) > 0
               THEN table[clueType]
               ELSE IF "_default" \in DOMAIN table THEN table["_default"]
                    ELSE HardcodedWrappers
           wrapper == Pick(wrappers, randomFn[Len(picked) + 1])
           requirements == [k \in 1..(2 * Len(phrases) - 1) |->
                              IF k % 2 = 1 THEN phrases[(k + 1) \div 2] ELSE ", "]
       IN Replace(wrapper, Placeholder, requirements)

buildSkillLockedMessage_NoTableGuard(missingSkills, clueType, noAccessMessages, parseSkillFn, randomFn) ==
  IF parseSkillFn = "none" THEN FixedFallbackMessage
  ELSE LET picked == IF Has(noAccessMessages, "skill_phrases")
                       THEN CollectPhrases(missingSkills, noAccessMessages.skill_phrases,
                                           randomFn, 0)
                       ELSE <<>>
           phrases == IF Len(picked) = 0 THEN <<FallbackPhrase>> ELSE picked
           wrappers ==
             IF ~Has(noAccessMessages, "wrappers") THEN HardcodedWrappers
             ELSE IF clueType \in DOMAIN noAccessMessages.wrappers
                       /\ Len(noAccessMessages.wrappers[clueType]) > 0
               THEN noAccessMessages.wrappers[clueType]
               ELSE IF "_default" \in DOMAIN noAccessMessages.wrappers
                      THEN noAccessMessages.wrappers["_default"]
                      ELSE HardcodedWrappers
           wrapper == Pick(wrappers, randomFn[Len(picked) + 1])
       IN Replace(wrapper, Placeholder, joinWithOr(phrases))

buildSkillLockedMessage(missingSkills, clueType, noAccessMessages, parseSkillFn, randomFn) ==
  IF ~Has(noAccessMessages, "skill_phrases") \/ ~Has(noAccessMessages, "wrappers")
    THEN FixedFallbackMessage
  ELSE IF parseSkillFn = "none" THEN FixedFallbackMessage
  ELSE LET picked == CollectPhrases(missingSkills, noAccessMessages.skill_phrases, randomFn, 0)
           phrases == IF Len(picked) = 0 THEN <<FallbackPhrase>> ELSE picked
           table == noAccessMessages.wrappers
           wrappers ==
             IF clueType \in DOMAIN table /\ Len(table[clueType]) > 0
               THEN table[clueType]
               ELSE IF "_default" \in DOMAIN table THEN table["_default"]
                    ELSE HardcodedWrappers
           wrapper == Pick(wrappers, randomFn[Len(picked) + 1])
           requirements == joinWithOr(phrases)
       IN Replace(wrapper, Placeholder, requirements)

\* The wrapper list the message is drawn from: the clue type's variants, else
\* wrappers._default when the table has one (an empty array is truthy), else
\* the hardcoded sentence.
SelectedWrappers(clueType, table) ==
  IF clueType \in DOMAIN table /\ Len(table[clueType]) > 0
    THEN table[clueType]
    ELSE IF "_default" \in DOMAIN table THEN table["_default"]
         ELSE HardcodedWrappers

\* random(wrappers) of an empty list is undefined, and wrapper.replace then
\* raises a TypeError instead of returning a message.
MessageRaises(clueType, noAccessMessages, parseSkillFn) ==
  /\ Has(noAccessMessages, "skill_phrases")
  /\ Has(noAccessMessages, "wrappers")
  /\ parseSkillFn # "none"
  /\ Len(SelectedWrappers(clueType, noAccessMessages.wrappers)) = 0

----------------------------------------------------------------------------
(* src/js/clue-access.js: the access resolver *)

AlwaysOpenActs == {"act_prologue", "act_i_setting"}

Unlocked == [name |-> "unlocked"]
Gated == [name |-> "gated"]
Thrown == [throws |-> "hasSkillAccess function is required"]
TypeErrorThrown == [throws |-> "TypeError: wrapper is undefined"]

\* clueData.type, the string "undefined" when the clue declares none (the key
\* JavaScript looks up in the wrapper table then).
TypeOf(clueData) == IF Has(clueData, "type") THEN clueData.type ELSE "undefined"

SkillsOf(clueData) == IF Has(clueData, "skills") THEN clueData.skills ELSE <<>>

SkillLocked_FirstSkillOnly(clueData, options) ==
  LET result ==
        [name |-> "skill-locked",
         message |-> buildSkillLockedMessage(SubSeq(SkillsOf(clueData), 1, 1),
                       TypeOf(clueData), options.noAccessMessages,
                       options.parseSkillFn, options.randomFn)]
  IN IF Has(clueData, "accessChars")
       THEN result @@ ("suggestedCharacters" :> clueData.accessChars)
       ELSE result

SkillLocked(clueData, options) ==
  LET result ==
        [name |-> "skill-locked",
         message |-> buildSkillLockedMessage(SkillsOf(clueData), TypeOf(clueData),
                       options.noAccessMessages, options.parseSkillFn, options.randomFn)]
  IN IF Has(clueData, "accessChars")
       THEN result @@ ("suggestedCharacters" :> clueData.accessChars)
       ELSE result

IsGatedAct(clueData, unlockedActs) ==
  /\ Has(clueData, "act")
  /\ clueData.act \notin AlwaysOpenActs
  /\ ~Includes(unlockedActs, clueData.act)

resolveClueState_GateFirst(clueData, options) ==
  IF options.hasSkillAccessFn = "none" THEN Thrown
  ELSE IF IsGatedAct(clueData, options.unlockedActs) THEN Gated
  ELSE IF Includes(options.unlockedClues, clueData.id) THEN Unlocked
  ELSE IF ~hasSkillAccess(SkillsOf(clueData), options.userSkills)
    THEN SkillLocked(clueData, options)
  ELSE Unlocked

resolveClueState_SkillsFirst(clueData, options) ==
  IF options.hasSkillAccessFn = "none" THEN Thrown
  ELSE IF Includes(options.unlockedClues, clueData.id) THEN Unlocked
  ELSE IF ~hasSkillAccess(SkillsOf(clueData), options.userSkills)
    THEN SkillLocked(clueData, options)
  ELSE IF IsGatedAct(clueData, options.unlockedActs) THEN Gated
  ELSE Unlocked

resolveClueState_GatedWithMessage(clueData, options) ==
  IF options.hasSkillAccessFn = "none" THEN Thrown
  ELSE IF Includes(options.unlockedClues, clueData.id) THEN Unlocked
  ELSE IF IsGatedAct(clueData, options.unlockedActs)
    THEN [SkillLocked(clueData, options) EXCEPT !.name = "gated"]
  ELSE IF ~hasSkillAccess(SkillsOf(clueData), options.userSkills)
    THEN SkillLocked(clueData, options)
  ELSE Unlocked

resolveClueState(clueData, options) ==
  IF options.hasSkillAccessFn = "none" THEN Thrown
  ELSE IF Includes(options.unlockedClues, clueData.id) THEN Unlocked
  ELSE IF IsGatedAct(clueData, options.unlockedActs) THEN Gated
  ELSE IF ~hasSkillAccess(SkillsOf(clueData), options.userSkills)
    THEN IF MessageRaises(TypeOf(clueData), options.noAccessMessages,
                          options.parseSkillFn)
           THEN TypeErrorThrown
           ELSE SkillLocked(clueData, options)
  ELSE Unlocked

\* sideQuests maps a character id to its side quest's hashtag; characterId is
\* "none" when no character is active; the result "null" is JavaScript's null.
getQuestClueIsKeyFor_SideFirst(clueData, options) ==
  LET keyHashtags == IF Has(clueData, "is_key") THEN clueData.is_key ELSE <<>> IN
  IF Len(keyHashtags) = 0 THEN "null"
  ELSE IF /\ options.characterId # "none"
          /\ options.characterId \in DOMAIN options.sideQuests
          /\ Includes(keyHashtags, options.sideQuests[options.characterId])
    THEN options.sideQuests[options.characterId]
  ELSE IF Includes(keyHashtags, options.mainQuestHashtag) THEN options.mainQuestHashtag
  ELSE "null"

getQuestClueIsKeyFor(clueData, options) ==
  LET keyHashtags == IF Has(clueData, "is_key") THEN clueData.is_key ELSE <<>> IN
  IF Len(keyHashtags) = 0 THEN "null"
  ELSE IF Includes(keyHashtags, options.mainQuestHashtag) THEN options.mainQuestHashtag
  ELSE IF /\ options.characterId # "none"
          /\ options.characterId \in DOMAIN options.sideQuests
          /\ Includes(keyHashtags, options.sideQuests[options.characterId])
    THEN options.sideQuests[options.characterId]
  ELSE "null"

----------------------------------------------------------------------------
(* Content the checks draw from: skills, the template table, clue fields *)

ART == <<"a", "r", "t">>
MED == <<"m", "e", "d">>
PERSONAL_ROMANO == <<"p", "_", "r">>

\* The decimal text of a level, as a template literal writes a number.
RECURSIVE Decimal(_)
Decimal(n) ==
  IF n < 10 THEN <<DigitChars[n + 1]>>
  ELSE Decimal(n \div 10) \o <<DigitChars[(n % 10) + 1]>>

\* `${category}_${level}`
Suffixed(category, level) == category \o <<"_">> \o Decimal(level)

Categories == {ART, PERSONAL_ROMANO}
Levels == {1, 2, 10}

\* Every category bare and at every level.
SkillUniverse == Categories \cup {Suffixed(c, l) : c \in Categories, l \in Levels}

ART_1 == Suffixed(ART, 1)
ART_2 == Suffixed(ART, 2)
MED_1 == Suffixed(MED, 1)
MED_2 == Suffixed(MED, 2)

NoAccessMessages ==
  [skill_phrases |->
     (ART :> [isArray |-> FALSE,
              levels |-> (1 :> <<"artistic knowledge", "an eye for art">>)
                           @@ (2 :> <<"expert artistic knowledge">>)])
     @@ (MED :> [isArray |-> FALSE,
                 levels |-> (1 :> <<"medical training">>)])
     @@ (PERSONAL_ROMANO :> [isArray |-> TRUE,
                             items |-> <<"Romano's memories">>]),
   wrappers |->
     ("Document" :> << <<"This document requires ", Placeholder, " to decipher.">>,
                       <<"Without ", Placeholder, " the text stays mute.">> >>)
     @@ ("_default" :> << <<"The meaning here escapes you. You'd need ", Placeholder, ".">> >>)]

\* The pickers that can be asked for up to `calls` draws.
Pickers(calls) == [1..calls -> {0, 1}]
FirstPick(calls) == [n \in 1..calls |-> 0]

MainQuest == "main_quest"
SideQuests == ("alice" :> "alice_side_quest") @@ ("bob" :> "bob_side_quest")
QuestHashtags == {MainQuest, "alice_side_quest", "bob_side_quest"}

ActII == "act_ii_mystery_emerges"
ActIII == "act_iii_investigation"

Optional(S) == {[some |-> FALSE]} \cup {[some |-> TRUE, v |-> x] : x \in S}
Field(name, choice) == IF choice.some THEN (name :> choice.v) ELSE [x \in {} |-> x]

----------------------------------------------------------------------------
(* The page flow's state before anything ran *)

Absent == [present |-> FALSE]
Stored(v) == [present |-> TRUE, value |-> v]

\* available: whether the browser lets the page touch localStorage at all.
FirstVisit ==
  [available |-> TRUE,
   unlocked |-> Absent, unlocked_acts |-> Absent, scanned |-> Absent,
   character_profile |-> Absent]

NoPage == [open |-> FALSE]
NoEvent == [op |-> "none", clue |-> "n/a", discovery |-> "none", reported |-> "n/a"]
NoCall == [fn |-> "none"]
NotRun == [done |-> FALSE]
Returned(v) == [done |-> TRUE, value |-> v]

PageIdle == localStorage = FirstVisit /\ page = NoPage /\ event = NoEvent

----------------------------------------------------------------------------
(* SpecSkills: hasSkillAccess on every pair of skill lists within the bounds *)

InitSkills ==
  /\ call \in [fn : {"hasSkillAccess"},
               requiredSkills : SeqsUpTo(SkillUniverse, MaxReq),
               userSkills : SeqsUpTo(SkillUniverse, MaxUser)]
  /\ ret = NotRun
  /\ PageIdle

CallHasSkillAccess ==
  /\ call.fn = "hasSkillAccess"
  /\ ~ret.done
  /\ ret' = Returned(hasSkillAccess(call.requiredSkills, call.userSkills))
  /\ UNCHANGED <<call, localStorage, page, event>>

NextSkills == CallHasSkillAccess

SpecSkills == InitSkills /\ [][NextSkills]_vars

----------------------------------------------------------------------------
(* SpecInvalid: parseSkill and hasSkillAccess on lists that hold '', null and
   numbers next to well-formed identifiers *)

\* '', null and a number, next to three well-formed identifiers
LooseUniverse == {<<>>, JsNull, JsNumber} \cup {ART, ART_1, ART_2}

InitInvalid ==
  /\ call \in [fn : {"parseSkill"}, skill : LooseUniverse]
            \cup [fn : {"hasSkillAccess"},
                  requiredSkills : SeqsUpTo(LooseUniverse, MaxReq),
                  userSkills : SeqsUpTo(LooseUniverse, MaxUser)]
  /\ ret = NotRun
  /\ PageIdle

CallParseSkill ==
  /\ call.fn = "parseSkill"
  /\ ~ret.done
  /\ ret' = Returned(parseSkill(call.skill))
  /\ UNCHANGED <<call, localStorage, page, event>>

NextInvalid == CallParseSkill \/ CallHasSkillAccess

SpecInvalid == InitInvalid /\ [][NextInvalid]_vars

----------------------------------------------------------------------------
(* SpecConvert: convertSkills on flat and nested skills *)

\* Entries of a flat list: suffixed ids, a personal id, '' and null.
FlatEntries == {ART_2, MED_1, PERSONAL_ROMANO, <<>>, JsNull}

\* Entries of a nested level: bare categories, '' among them.
NestedEntries == {ART, MED, <<>>}

PersonalEntries == {PERSONAL_ROMANO, JsNull}

SkillsInputs ==
  {[isArray |-> TRUE, items |-> items] : items \in SeqsUpTo(FlatEntries, MaxUser)}
  \cup
  {[isArray |-> FALSE] @@ Field("expert", e) @@ Field("basic", b) @@ Field("personal", p) :
     e \in Optional(SeqsUpTo(NestedEntries, MaxUser)),
     b \in Optional(SeqsUpTo(NestedEntries, MaxUser)),
     p \in Optional(SeqsUpTo(PersonalEntries, 1))}

InitConvert ==
  /\ call \in [fn : {"convertSkills"}, skills : SkillsInputs]
  /\ ret = NotRun
  /\ PageIdle

CallConvertSkills ==
  /\ call.fn = "convertSkills"
  /\ ~ret.done
  /\ ret' = Returned(convertSkills(call.skills))
  /\ UNCHANGED <<call, localStorage, page, event>>

NextConvert == CallConvertSkills

SpecConvert == InitConvert /\ [][NextConvert]_vars

----------------------------------------------------------------------------
(* SpecRoster: charactersWithAccess on required skills and rosters *)

Chars_TheArtist == <<"T", "h", "e", " ", "A", "r", "t", "i", "s", "t">>
Chars_Bob == <<"B", "o", "b">>
Chars_TheNarrator == <<"T", "h", "e", " ", "N", "a", "r", "r", "a", "t", "o", "r">>
Chars_Theo == <<"T", "h", "e", "o">>
Chars_dana == <<"d", "a", "n", "a">>

\* The cast rosters are drawn from: players with nested and flat skills, a
\* non-player who has the skills, a character with no is_player flag and no
\* title, and a player with no skills entry.
Cast ==
  { [id |-> <<"a">>, title |-> Chars_TheArtist, is_player |-> TRUE,
     skills |-> [isArray |-> FALSE, expert |-> <<ART>>, basic |-> <<MED>>]],
    [id |-> <<"b">>, title |-> Chars_Bob, is_player |-> TRUE,
     skills |-> [isArray |-> TRUE, items |-> <<MED_1>>]],
    [id |-> <<"n">>, title |-> Chars_TheNarrator, is_player |-> FALSE,
     skills |-> [isArray |-> TRUE, items |-> <<ART_2, MED_2>>]],
    [id |-> Chars_dana,
     skills |-> [isArray |-> TRUE, items |-> <<ART_1>>]],
    [id |-> <<"t">>, title |-> Chars_Theo, is_player |-> TRUE],
    [id |-> <<"g">>, title |-> <<>>, is_player |-> FALSE,
     skills |-> [isArray |-> FALSE, expert |-> <<MED>>]] }

\* Rosters list each character at most once.
Rosters == {r \in SeqsUpTo(Cast, MaxRoster) :
              \A i, j \in 1..Len(r) : i # j => r[i] # r[j]}

RosterRequired == {ART_1, ART_2, MED_2}

InitRoster ==
  /\ call \in [fn : {"charactersWithAccess"},
               clueSkills : SeqsUpTo(RosterRequired, MaxReq),
               characters : Rosters]
  /\ ret = NotRun
  /\ PageIdle

CallCharactersWithAccess ==
  /\ call.fn = "charactersWithAccess"
  /\ ~ret.done
  /\ ret' = Returned(charactersWithAccess(call.clueSkills, call.characters))
  /\ UNCHANGED <<call, localStorage, page, event>>

NextRoster == CallCharactersWithAccess

SpecRoster == InitRoster /\ [][NextRoster]_vars

----------------------------------------------------------------------------
(* SpecMessage: buildSkillLockedMessage on skill lists, clue types, template *)
(* tables and parsers, with the test's first-item picker or Math.random      *)

HIST_1 == Suffixed(<<"h", "i", "s", "t">>, 1)

\* Skills with phrases (art_1, art_2, med_1, the personal one) and without:
\* a level the table lacks (med_2) and a category it lacks (hist_1).
MessageSkills == {ART_1, ART_2, MED_1, MED_2, PERSONAL_ROMANO, HIST_1}

\* "undefined" stands for a clue without a type; "Vision" has no variants.
MessageTypes == {"Document", "Artifact (Object)", "Vision", "undefined"}

FullTable == [NoAccessMessages EXCEPT !.wrappers = @ @@ ("Vision" :> <<>>)]

\* The table missing altogether, without skill_phrases, without wrappers.
NoTable == [isNull |-> TRUE]
TableWithoutPhrases == [wrappers |-> FullTable.wrappers]
TableWithoutWrappers == [skill_phrases |-> FullTable.skill_phrases]

MessageTables == {FullTable, NoTable, TableWithoutPhrases, TableWithoutWrappers}

InitMessage ==
  /\ call \in [fn : {"buildSkillLockedMessage"},
               missingSkills : SeqsUpTo(MessageSkills, MaxMissing),
               clueType : MessageTypes,
               noAccessMessages : MessageTables,
               parseSkillFn : {"parseSkill", "none"},
               firstItemPicker : BOOLEAN]
  /\ ret = NotRun
  /\ PageIdle

CallBuildSkillLockedMessage ==
  /\ call.fn = "buildSkillLockedMessage"
  /\ ~ret.done
  /\ \E random \in (IF call.firstItemPicker
                      THEN {FirstPick(Len(call.missingSkills) + 1)}
                      ELSE Pickers(Len(call.missingSkills) + 1)) :
       ret' = Returned(buildSkillLockedMessage(call.missingSkills, call.clueType,
                         call.noAccessMessages, call.parseSkillFn, random))
  /\ UNCHANGED <<call, localStorage, page, event>>

NextMessage == CallBuildSkillLockedMessage

SpecMessage == InitMessage /\ [][NextMessage]_vars

----------------------------------------------------------------------------
(* SpecResolve: resolveClueState on clues and player states within the bounds *)

ResolveClueIds == {"K1", "K2"}
RequiredPool == {ART_2, MED_1}
UserPool == {ART_1, MED_1}

ClueInputs ==
  {[id |-> id] @@ Field("act", act) @@ Field("skills", skills)
     @@ Field("type", type) @@ Field("accessChars", chars) :
     id \in ResolveClueIds,
     act \in Optional({"act_prologue", "act_i_setting", ActII, ActIII}),
     skills \in Optional(SeqsUpTo(RequiredPool, MaxReq)),
     type \in Optional({"Document"}),
     chars \in Optional({<<"Alice", "Bob">>})}

InitResolve ==
  /\ call \in [fn : {"resolveClueState"},
               clueData : ClueInputs,
               unlockedClues : {<<>>, <<"K1">>, <<"K2", "K1">>},
               unlockedActs : {<<>>, <<ActII>>, <<ActIII>>},
               userSkills : SeqsUpTo(UserPool, MaxUser)]
  /\ ret = NotRun
  /\ PageIdle

\* The options the caller passes; Math.random draws any index on each call.
ResolveOptions(c, random) ==
  [unlockedClues |-> c.unlockedClues,
   unlockedActs |-> c.unlockedActs,
   userSkills |-> c.userSkills,
   noAccessMessages |-> NoAccessMessages,
   hasSkillAccessFn |-> "hasSkillAccess",
   parseSkillFn |-> "parseSkill",
   randomFn |-> random]

CallResolveClueState ==
  /\ call.fn = "resolveClueState"
  /\ ~ret.done
  /\ \E random \in Pickers(Len(SkillsOf(call.clueData)) + 1) :
       ret' = Returned(resolveClueState(call.clueData, ResolveOptions(call, random)))
  /\ UNCHANGED <<call, localStorage, page, event>>

NextResolve == CallResolveClueState

SpecResolve == InitResolve /\ [][NextResolve]_vars

----------------------------------------------------------------------------
(* SpecRaise: resolveClueState with and without a skill matcher, on template
   tables whose wrapper lists may be empty *)

\* wrappers: { _default: [] }
TableEmptyDefault ==
  [NoAccessMessages EXCEPT !.wrappers = ("_default" :> <<>>)]

InitRaise ==
  /\ call \in [fn : {"resolveClueState"},
               clueData :
                 {[id |-> id] @@ Field("act", act) @@ Field("skills", skills)
                    @@ Field("type", type) :
                    id \in ResolveClueIds,
                    act \in Optional({"act_i_setting", ActII}),
                    skills \in Optional(SeqsUpTo(RequiredPool, MaxReq)),
                    type \in Optional({"Document"})},
               unlockedClues : {<<>>, <<"K1">>},
               unlockedActs : {<<>>, <<ActII>>},
               userSkills : SeqsUpTo(UserPool, MaxUser),
               \* the full table, one without variants for documents, one
               \* whose only list is an empty _default, one with wrappers: {}
               noAccessMessages :
                 {NoAccessMessages,
                  [NoAccessMessages EXCEPT !.wrappers = [@ EXCEPT !["Document"] = <<>>]],
                  TableEmptyDefault,
                  [NoAccessMessages EXCEPT !.wrappers = [x \in {} |-> x]]},
               hasSkillAccessFn : {"hasSkillAccess", "none"}]
  /\ ret = NotRun
  /\ PageIdle

CallResolveWithOptions ==
  /\ call.fn = "resolveClueState"
  /\ ~ret.done
  /\ \E random \in Pickers(Len(SkillsOf(call.clueData)) + 1) :
       ret' = Returned(resolveClueState(call.clueData,
                [unlockedClues |-> call.unlockedClues,
                 unlockedActs |-> call.unlockedActs,
                 userSkills |-> call.userSkills,
                 noAccessMessages |-> call.noAccessMessages,
                 hasSkillAccessFn |-> call.hasSkillAccessFn,
                 parseSkillFn |-> "parseSkill",
                 randomFn |-> random]))
  /\ UNCHANGED <<call, localStorage, page, event>>

NextRaise == CallResolveWithOptions

SpecRaise == InitRaise /\ [][NextRaise]_vars

----------------------------------------------------------------------------
(* SpecQuest: getQuestClueIsKeyFor on key lists and active characters *)


\* Lists of distinct hashtags, in every order.
KeyLists == {ks \in SeqsUpTo(QuestHashtags, Cardinality(QuestHashtags)) :
               \A i, j \in 1..Len(ks) : i # j => ks[i] # ks[j]}

InitQuest ==
  /\ call \in [fn : {"getQuestClueIsKeyFor"},
               clueData : {[id |-> id] @@ Field("is_key", keys) :
                             id \in ResolveClueIds, keys \in Optional(KeyLists)},
               sideQuests : {SideQuests, ("alice" :> "alice_side_quest"),
                             [x \in {} |-> x]},
               characterId : {"none", "alice", "bob", "carol"}]
  /\ ret = NotRun
  /\ PageIdle

CallGetQuestClueIsKeyFor ==
  /\ call.fn = "getQuestClueIsKeyFor"
  /\ ~ret.done
  /\ ret' = Returned(getQuestClueIsKeyFor(call.clueData,
               [mainQuestHashtag |-> MainQuest,
                sideQuests |-> call.sideQuests,
                characterId |-> call.characterId]))
  /\ UNCHANGED <<call, localStorage, page, event>>

NextQuest == CallGetQuestClueIsKeyFor

SpecQuest == InitQuest /\ [][NextQuest]_vars

----------------------------------------------------------------------------
(* The storage helpers the pages share (src/unnamed/part_004) *)

\* An item whose text JSON.parse rejects.
Unparsable == [present |-> TRUE, unparsable |-> TRUE]

\* setItem throws: storage cannot be reached at all, or its quota is used up.
WriteRejected(store) == ~store.available \/ Has(store, "quota_exceeded")

getFromLocalStorage_ParseUncaught(store, key, defaultValue) ==
  IF ~store.available THEN defaultValue
  ELSE IF ~store[key].present THEN defaultValue
  ELSE IF Has(store[key], "unparsable") THEN [throws |-> "SyntaxError"]
  ELSE store[key].value

getFromLocalStorage(store, key, defaultValue) ==
  IF ~store.available THEN defaultValue
  ELSE IF ~store[key].present THEN defaultValue
  ELSE IF Has(store[key], "unparsable") THEN defaultValue
  ELSE store[key].value

\* The store saveToLocalStorage leaves behind.
saveToLocalStorage(store, key, value) ==
  IF WriteRejected(store) THEN store
  ELSE [store EXCEPT ![key] = Stored(value)]

\* The value saveToLocalStorage returns: true after setItem, false from the catch.
saveToLocalStorageReturn(store, key, value) == ~WriteRejected(store)

NoProfile == [isNull |-> TRUE]

getCharacterProfile(store) == getFromLocalStorage(store, "character_profile", NoProfile)

getScannedClues(store) == getFromLocalStorage(store, "scanned", [all |-> <<>>])

storeCharacterProfile_MergesSkills(store, characterId, skills) ==
  LET previous == getFromLocalStorage(store, "character_profile", NoProfile)
      kept == IF previous.isNull THEN <<>> ELSE previous.skills
  IN saveToLocalStorage(store, "character_profile",
       [isNull |-> FALSE, characterId |-> characterId,
        skills |-> kept \o convertSkills(skills)])

storeCharacterProfile(store, characterId, skills) ==
  IF characterId = "" THEN store
  ELSE saveToLocalStorage(store, "character_profile",
         [isNull |-> FALSE, characterId |-> characterId, skills |-> convertSkills(skills)])

resetInvestigation(store) ==
  IF ~store.available THEN store
  ELSE [store EXCEPT !.character_profile = Absent, !.scanned = Absent,
                     !.unlocked = Absent, !.unlocked_acts = Absent]

----------------------------------------------------------------------------
(* src/js/clue-page.js: recording a discovery *)

getManuallyUnlockedClues(store) == getFromLocalStorage(store, "unlocked", <<>>)

saveManualUnlock_AlwaysPush(store, clueId) ==
  saveToLocalStorage(store, "unlocked", Push(getManuallyUnlockedClues(store), clueId))

saveManualUnlock(store, clueId) ==
  LET unlocked == getManuallyUnlockedClues(store) IN
  IF ~Includes(unlocked, clueId)
    THEN saveToLocalStorage(store, "unlocked", Push(unlocked, clueId))
    ELSE store

recordClueScan_AlwaysPush(store, clueId) ==
  LET scanned == getScannedClues(store) IN
  saveToLocalStorage(store, "scanned", [scanned EXCEPT !.all = Push(@, clueId)])

recordClueScan_StartsOver(store, clueId) ==
  saveToLocalStorage(store, "scanned", [all |-> <<clueId>>])

recordClueScan(store, clueId) ==
  LET scanned == getScannedClues(store)
      updated == IF ~Includes(scanned.all, clueId)
                   THEN [scanned EXCEPT !.all = Push(@, clueId)]
                   ELSE scanned
  IN saveToLocalStorage(store, "scanned", updated)

\* One turn of the forEach: create the quest's list if missing, then add the id.
AddToQuest(scanned, hashtag, clueId) ==
  LET ensured == IF hashtag \in DOMAIN scanned THEN scanned
                 ELSE scanned @@ (hashtag :> <<>>)
  IN IF ~Includes(ensured[hashtag], clueId)
       THEN [ensured EXCEPT ![hashtag] = Push(@, clueId)]
       ELSE ensured

RECURSIVE ForEachHashtag(_, _, _)
ForEachHashtag(scanned, keyHashtags, clueId) ==
  IF keyHashtags = <<>> THEN scanned
  ELSE ForEachHashtag(AddToQuest(scanned, Head(keyHashtags), clueId),
                      Tail(keyHashtags), clueId)

trackQuestKeyProgress_FirstKeyOnly(store, clueData) ==
  IF ~Has(clueData, "is_key") \/ Len(clueData.is_key) = 0 THEN store
  ELSE saveToLocalStorage(store, "scanned",
         ForEachHashtag(getScannedClues(store), SubSeq(clueData.is_key, 1, 1),
                        clueData.id))

trackQuestKeyProgress_EveryQuest(store, clueData) ==
  IF ~Has(clueData, "is_key") \/ Len(clueData.is_key) = 0 THEN store
  ELSE saveToLocalStorage(store, "scanned",
         ForEachHashtag(getScannedClues(store),
                        <<MainQuest, "alice_side_quest", "bob_side_quest">>, clueData.id))

trackQuestKeyProgress(store, clueData) ==
  IF ~Has(clueData, "is_key") \/ Len(clueData.is_key) = 0 THEN store
  ELSE saveToLocalStorage(store, "scanned",
         ForEachHashtag(getScannedClues(store), clueData.is_key, clueData.id))

unlockStoryGate_Skipped(store, clueData) == store

unlockStoryGate_ForgetsEarlier(store, clueData) ==
  IF ~Has(clueData, "story_gate_for") THEN store
  ELSE saveToLocalStorage(store, "unlocked_acts", <<clueData.story_gate_for>>)

unlockStoryGate(store, clueData) ==
  IF ~Has(clueData, "story_gate_for") THEN store
  ELSE LET unlocked == getFromLocalStorage(store, "unlocked_acts", <<>>) IN
       IF ~Includes(unlocked, clueData.story_gate_for)
         THEN saveToLocalStorage(store, "unlocked_acts",
                                 Push(unlocked, clueData.story_gate_for))
         ELSE store

processClueDiscovery_QuestsOnly(store, clueData) ==
  unlockStoryGate(trackQuestKeyProgress(store, clueData), clueData)

processClueDiscovery(store, clueData) ==
  unlockStoryGate(trackQuestKeyProgress(recordClueScan(store, clueData.id), clueData),
                  clueData)

----------------------------------------------------------------------------
(* src/js/main.js: the earlier recording of a scan, on the same store *)

\* resetInvestigation as src/js/main.js has it: three removeItem calls.
resetInvestigationMainJs(store) ==
  IF ~store.available THEN store
  ELSE [store EXCEPT !.character_profile = Absent, !.scanned = Absent,
                     !.unlocked = Absent]

markClueAsUnlocked(store, clueId) ==
  IF clueId = "" THEN store
  ELSE LET unlocked == getFromLocalStorage(store, "unlocked", <<>>) IN
       IF ~Includes(unlocked, clueId)
         THEN saveToLocalStorage(store, "unlocked", Push(unlocked, clueId))
         ELSE store

markClueAsScanned(store, clueData) ==
  IF ~store.available THEN store
  ELSE LET scanned == getScannedClues(store)
           withAll == IF ~Includes(scanned.all, clueData.id)
                        THEN [scanned EXCEPT !.all = Push(@, clueData.id)]
                        ELSE scanned
           isKey == IF Has(clueData, "is_key") THEN clueData.is_key ELSE <<>>
       IN [store EXCEPT !.scanned = Stored(ForEachHashtag(withAll, isKey, clueData.id))]

----------------------------------------------------------------------------
(* Content of the page flow: the clues, the roster, the quests *)

Clues ==
  [K1 |-> [id |-> "K1", act |-> "act_i_setting", skills |-> <<>>, type |-> "Document",
           is_key |-> <<MainQuest>>, story_gate_for |-> ActII],
   K2 |-> [id |-> "K2", act |-> ActII, skills |-> <<ART_2>>, type |-> "Artifact (Object)",
           accessChars |-> <<"Alice">>, unlock_code |-> "0257",
           is_key |-> <<MainQuest, "alice_side_quest">>],
   K3 |-> [id |-> "K3", skills |-> <<MED_1, ART_1>>, type |-> "Document",
           accessChars |-> <<"Alice", "Bob">>, unlock_code |-> "1346",
           is_key |-> <<"bob_side_quest">>, story_gate_for |-> ActIII],
   K4 |-> [id |-> "K4", act |-> ActIII]]

ClueIds == DOMAIN Clues

Characters ==
  [alice |-> [id |-> "alice", title |-> "The Artist", is_player |-> TRUE,
              skills |-> [isArray |-> FALSE, expert |-> <<ART>>, basic |-> <<>>,
                          personal |-> <<PERSONAL_ROMANO>>]],
   bob |-> [id |-> "bob", title |-> "The Doctor", is_player |-> TRUE,
            skills |-> [isArray |-> TRUE, items |-> <<MED_1>>]],
   carol |-> [id |-> "carol", title |-> "The Clerk", is_player |-> TRUE,
              skills |-> [isArray |-> TRUE, items |-> <<>>]]]

CharacterIds == DOMAIN Characters

----------------------------------------------------------------------------
(* src/js/clue-page.js: the page handlers *)

determineAccessState(store, clueData, random) ==
  LET profile == getCharacterProfile(store) IN
  resolveClueState(clueData,
    [unlockedClues |-> getManuallyUnlockedClues(store),
     unlockedActs |-> getFromLocalStorage(store, "unlocked_acts", <<>>),
     userSkills |-> IF profile.isNull THEN <<>> ELSE profile.skills,
     noAccessMessages |-> NoAccessMessages,
     hasSkillAccessFn |-> "hasSkillAccess",
     parseSkillFn |-> "parseSkill",
     randomFn |-> random])

ReportedQuest(store, clueData) ==
  LET profile == getCharacterProfile(store) IN
  getQuestClueIsKeyFor(clueData,
    [mainQuestHashtag |-> MainQuest,
     sideQuests |-> SideQuests,
     characterId |-> IF profile.isNull THEN "none" ELSE profile.characterId])

\* Whether the clue's discovery was already recorded when a handler records it.
DiscoveryKind(store, clueId) ==
  IF Includes(getScannedClues(store).all, clueId) THEN "repeat" ELSE "first"

LoadPage_RecordsWhenLocked(c) ==
  \E random \in Pickers(Len(SkillsOf(Clues[c])) + 1) :
    LET clueData == Clues[c]
        state == determineAccessState(localStorage, clueData, random)
        discovers == ~Includes(getScannedClues(localStorage).all, c)
        armed == state.name = "skill-locked" /\ Has(clueData, "unlock_code")
    IN /\ page' = [open |-> TRUE, clue |-> c, state |-> state,
                   lock |-> IF armed THEN "armed" ELSE "none"]
       /\ localStorage' = IF discovers THEN processClueDiscovery(localStorage, clueData)
                          ELSE localStorage
       /\ event' = [op |-> "load", clue |-> c,
                    discovery |-> IF discovers THEN "first" ELSE "none",
                    reported |-> IF discovers THEN ReportedQuest(localStorage', clueData)
                                 ELSE "n/a"]
       /\ UNCHANGED <<call, ret>>

LoadPage_OctogramOnGated(c) ==
  \E random \in Pickers(Len(SkillsOf(Clues[c])) + 1) :
    LET clueData == Clues[c]
        state == determineAccessState(localStorage, clueData, random)
        discovers == /\ state.name = "unlocked"
                     /\ ~Includes(getScannedClues(localStorage).all, c)
        armed == state.name \in {"skill-locked", "gated"} /\ Has(clueData, "unlock_code")
    IN /\ page' = [open |-> TRUE, clue |-> c, state |-> state,
                   lock |-> IF armed THEN "armed" ELSE "none"]
       /\ localStorage' = IF discovers THEN processClueDiscovery(localStorage, clueData)
                          ELSE localStorage
       /\ event' = [op |-> "load", clue |-> c,
                    discovery |-> IF discovers THEN "first" ELSE "none",
                    reported |-> IF discovers THEN ReportedQuest(localStorage', clueData)
                                 ELSE "n/a"]
       /\ UNCHANGED <<call, ret>>

\* initCluePage: a clue's page is opened (its code was scanned).
LoadPage(c) ==
  \E random \in Pickers(Len(SkillsOf(Clues[c])) + 1) :
    LET clueData == Clues[c]
        state == determineAccessState(localStorage, clueData, random)
        discovers == /\ state.name = "unlocked"
                     /\ ~Includes(getScannedClues(localStorage).all, c)
        armed == state.name = "skill-locked" /\ Has(clueData, "unlock_code")
    IN /\ page' = [open |-> TRUE, clue |-> c, state |-> state,
                   lock |-> IF armed THEN "armed" ELSE "none"]
       /\ localStorage' = IF discovers THEN processClueDiscovery(localStorage, clueData)
                          ELSE localStorage
       /\ event' = [op |-> "load", clue |-> c,
                    discovery |-> IF discovers THEN "first" ELSE "none",
                    reported |-> IF discovers THEN ReportedQuest(localStorage', clueData)
                                 ELSE "n/a"]
       /\ UNCHANGED <<call, ret>>

\* onOctogramUnlock: the open page's octogram lock calls back, once.
OctogramUnlock ==
  /\ page.open
  /\ page.lock = "armed"
  /\ LET clueData == Clues[page.clue]
         saved == saveManualUnlock(localStorage, clueData.id)
     IN /\ localStorage' = processClueDiscovery(saved, clueData)
        /\ page' = [page EXCEPT !.state = Unlocked, !.lock = "solved"]
        /\ event' = [op |-> "octogram", clue |-> page.clue,
                     discovery |-> DiscoveryKind(localStorage, clueData.id),
                     reported |-> ReportedQuest(localStorage', clueData)]
  /\ UNCHANGED <<call, ret>>

\* The player picks a character, on the character page.
SelectCharacter(ch) ==
  /\ localStorage' = storeCharacterProfile(localStorage, ch, Characters[ch].skills)
  /\ page' = NoPage
  /\ event' = [op |-> "character", clue |-> "n/a", discovery |-> "none", reported |-> "n/a"]
  /\ UNCHANGED <<call, ret>>

\* handleReset: the player confirms the reset, on the reset page.
Reset ==
  /\ localStorage' = resetInvestigation(localStorage)
  /\ page' = NoPage
  /\ event' = [op |-> "reset", clue |-> "n/a", discovery |-> "none", reported |-> "n/a"]
  /\ UNCHANGED <<call, ret>>

Init ==
  /\ call = NoCall
  /\ ret = NotRun
  /\ PageIdle

Next ==
  \/ \E c \in ClueIds : LoadPage(c)
  \/ OctogramUnlock
  \/ \E ch \in CharacterIds : SelectCharacter(ch)
  \/ Reset

Spec == Init /\ [][Next]_vars

----------------------------------------------------------------------------
(* SpecDegraded: the clue page and the character page on a browser whose
   storage is out of reach, full, or holds items that do not parse *)

StorageKeys == {"character_profile", "scanned", "unlocked", "unlocked_acts"}

InitDegraded ==
  /\ call = NoCall
  /\ ret = NotRun
  /\ localStorage \in
       {FirstVisit,
        [FirstVisit EXCEPT !.available = FALSE],
        FirstVisit @@ ("quota_exceeded" :> TRUE),
        [FirstVisit EXCEPT !.character_profile = Unparsable, !.scanned = Unparsable,
                           !.unlocked = Unparsable, !.unlocked_acts = Unparsable]}
       \cup {[FirstVisit EXCEPT ![k] = Unparsable] : k \in StorageKeys}
  /\ page = NoPage
  /\ event = NoEvent

NextDegraded ==
  \/ \E c \in ClueIds : LoadPage(c)
  \/ OctogramUnlock
  \/ \E ch \in CharacterIds : SelectCharacter(ch)

SpecDegraded == InitDegraded /\ [][NextDegraded]_vars

----------------------------------------------------------------------------
(* SpecInterleaved: two tabs of one browser load clue pages at the same time.
   Each getItem and each setItem is one step; the tabs share localStorage and
   nothing orders one tab's read-modify-write against the other's. *)

Tabs == {"A", "B"}

InitInterleaved ==
  /\ call = NoCall
  /\ ret = NotRun
  /\ event = NoEvent
  \* a first visit, or a character was picked and the first clue was found
  /\ localStorage \in {FirstVisit} \cup
       {processClueDiscovery(
          storeCharacterProfile(FirstVisit, ch, Characters[ch].skills), Clues["K1"]) :
          ch \in CharacterIds}
  /\ page \in [Tabs -> {[clue |-> c, pc |-> "load", discovers |-> FALSE,
                         scanned |-> [all |-> <<>>], acts |-> <<>>] : c \in ClueIds}]

\* Where processClueDiscovery goes on after the step at `pc`.
AfterStep(pc, clueData) ==
  LET gate == IF Has(clueData, "story_gate_for") THEN "unlockStoryGate.get" ELSE "done"
      quest == IF Has(clueData, "is_key") /\ Len(clueData.is_key) > 0
                 THEN "trackQuestKeyProgress.get" ELSE gate
  IN IF pc = "recordClueScan.set" THEN quest
     ELSE IF pc = "trackQuestKeyProgress.set" THEN gate
     ELSE "done"

\* initCluePage up to its decision to record a discovery.
TabResolve(t) ==
  LET clueData == Clues[page[t].clue]
      state == determineAccessState(localStorage, clueData,
                                    FirstPick(Len(SkillsOf(clueData)) + 1))
      discovers == /\ state.name = "unlocked"
                   /\ ~Includes(getScannedClues(localStorage).all, clueData.id)
  IN /\ page[t].pc = "load"
     /\ page' = [page EXCEPT ![t].discovers = discovers,
                             ![t].pc = IF discovers THEN "recordClueScan.get" ELSE "done"]
     /\ UNCHANGED <<call, ret, localStorage, event>>

\* The getItem of recordClueScan, trackQuestKeyProgress or unlockStoryGate.
TabGet(t) ==
  LET clueData == Clues[page[t].clue]
      acts == getFromLocalStorage(localStorage, "unlocked_acts", <<>>)
  IN /\ page[t].pc \in {"recordClueScan.get", "trackQuestKeyProgress.get",
                         "unlockStoryGate.get"}
     /\ page' =
          IF page[t].pc = "recordClueScan.get"
            THEN [page EXCEPT ![t].scanned = getScannedClues(localStorage),
                              ![t].pc = "recordClueScan.set"]
          ELSE IF page[t].pc = "trackQuestKeyProgress.get"
            THEN [page EXCEPT ![t].scanned = getScannedClues(localStorage),
                              ![t].pc = "trackQuestKeyProgress.set"]
          ELSE [page EXCEPT ![t].acts = acts,
                            ![t].pc = IF Includes(acts, clueData.story_gate_for)
                                        THEN "done" ELSE "unlockStoryGate.set"]
     /\ UNCHANGED <<call, ret, localStorage, event>>

\* The setItem that writes back what the tab read and changed.
TabSet(t) ==
  LET clueData == Clues[page[t].clue]
      scanned == page[t].scanned
  IN /\ page[t].pc \in {"recordClueScan.set", "trackQuestKeyProgress.set",
                         "unlockStoryGate.set"}
     /\ localStorage' =
          IF page[t].pc = "recordClueScan.set"
            THEN saveToLocalStorage(localStorage, "scanned",
                   IF ~Includes(scanned.all, clueData.id)
                     THEN [scanned EXCEPT !.all = Push(@, clueData.id)]
                     ELSE scanned)
          ELSE IF page[t].pc = "trackQuestKeyProgress.set"
            THEN saveToLocalStorage(localStorage, "scanned",
                   ForEachHashtag(scanned, clueData.is_key, clueData.id))
          ELSE saveToLocalStorage(localStorage, "unlocked_acts",
                 Push(page[t].acts, clueData.story_gate_for))
     /\ page' = [page EXCEPT ![t].pc = AfterStep(page[t].pc, clueData)]
     /\ UNCHANGED <<call, ret, event>>

NextInterleaved == \E t \in Tabs : TabResolve(t) \/ TabGet(t) \/ TabSet(t)

SpecInterleaved == InitInterleaved /\ [][NextInterleaved]_vars

----------------------------------------------------------------------------
(* SpecLock: one octogram lock (src/js/effects.js buildOctogramLock) on the
   skill-locked page of clue K3. Clicks and timer callbacks are the steps; a
   pending timer may fire at any later step, which covers every order the
   three delays (350, 900 and 700 ms) allow. *)

numNodes == 8
\* `required` in the source
requiredCount == 4

\* new Set(Array.from("1346").map(Number))
correctSet == {1, 3, 4, 6}

\* page holds the closure's variables, the timers set and not yet fired, and
\* the number of times onUnlock was called.
InitLock ==
  /\ call = NoCall
  /\ ret = NotRun
  /\ event = NoEvent
  /\ localStorage = FirstVisit
  /\ page = [clue |-> "K3", selected |-> {}, unlocked |-> FALSE,
             checks |-> 0, resets |-> 0, unlocks |-> 0, onUnlockCalls |-> 0]

\* The click listener of node i.
NodeClick(i) ==
  /\ ~page.unlocked
  /\ page' =
       IF i \in page.selected
         THEN [page EXCEPT !.selected = @ \ {i}]
       ELSE IF Cardinality(page.selected) < requiredCount
         THEN [page EXCEPT !.selected = @ \cup {i},
                           !.checks = IF Cardinality(page.selected) + 1 = requiredCount
                                        THEN @ + 1 ELSE @]
       ELSE page
  /\ page'.checks + page'.resets <= MaxTimers
  /\ UNCHANGED <<call, ret, localStorage, event>>

checkSelection_NoUnlockedGuard ==
  /\ page.checks > 0
  /\ page' =
       IF page.selected = correctSet
         THEN [page EXCEPT !.checks = @ - 1, !.unlocked = TRUE, !.unlocks = @ + 1]
       ELSE [page EXCEPT !.checks = @ - 1, !.resets = @ + 1]
  /\ UNCHANGED <<call, ret, localStorage, event>>

\* A 350 ms timer fires: checkSelection runs.
checkSelection ==
  /\ page.checks > 0
  /\ page' =
       IF page.unlocked THEN [page EXCEPT !.checks = @ - 1]
       ELSE IF page.selected = correctSet
         THEN [page EXCEPT !.checks = @ - 1, !.unlocked = TRUE, !.unlocks = @ + 1]
       ELSE [page EXCEPT !.checks = @ - 1, !.resets = @ + 1]
  /\ UNCHANGED <<call, ret, localStorage, event>>

\* A 900 ms timer fires: the selection is cleared.
FailureReset ==
  /\ page.resets > 0
  /\ page' = [page EXCEPT !.resets = @ - 1, !.selected = {}]
  /\ UNCHANGED <<call, ret, localStorage, event>>

\* The 700 ms timer fires: onUnlock, which is onOctogramUnlock(clueData).
UnlockDelay ==
  /\ page.unlocks > 0
  /\ page' = [page EXCEPT !.unlocks = @ - 1, !.onUnlockCalls = @ + 1]
  /\ localStorage' = processClueDiscovery(saveManualUnlock(localStorage, page.clue),
                                          Clues[page.clue])
  /\ UNCHANGED <<call, ret, event>>

NextLock ==
  \/ \E i \in 0..(numNodes - 1) : NodeClick(i)
  \/ checkSelection
  \/ FailureReset
  \/ UnlockDelay

SpecLock == InitLock /\ [][NextLock]_vars

----------------------------------------------------------------------------
(* Claims about resolveClueState, checked under SpecResolve *)

Resolved == call.fn = "resolveClueState" /\ ret.done

InUnlockedClues ==
  \E i \in 1..Len(call.unlockedClues) : call.unlockedClues[i] = call.clueData.id

\* The clue declares an act other than the two always-open ones and that act
\* is not among the unlocked acts.
ActBlocks ==
  /\ "act" \in DOMAIN call.clueData
  /\ call.clueData.act # "act_prologue"
  /\ call.clueData.act # "act_i_setting"
  /\ \A i \in 1..Len(call.unlockedActs) : call.unlockedActs[i] # call.clueData.act

RequiredOfCall ==
  IF "skills" \in DOMAIN call.clueData THEN call.clueData.skills ELSE <<>>

\* C1: a clue whose id is in unlockedClues resolves 'unlocked', whatever its
\* act, the unlocked acts, its required skills and the player's skills.
C1_BypassPrecedence ==
  (Resolved /\ InUnlockedClues) => ret.value.name = "unlocked"

C1_Witness ==
  /\ Resolved /\ InUnlockedClues /\ ActBlocks
  /\ ~hasSkillAccess(RequiredOfCall, call.userSkills)
  /\ ret.value.name = "unlocked"

\* C2: a clue whose id is not in unlockedClues resolves 'gated' exactly when
\* it declares an act that is not always open and not unlocked, whatever the
\* clue's skills and the player's skills.
C2_GatePrecedesSkills ==
  (Resolved /\ ~InUnlockedClues) => (ret.value.name = "gated" <=> ActBlocks)

C2_Witness ==
  /\ Resolved /\ ~InUnlockedClues /\ ActBlocks
  /\ Len(RequiredOfCall) > 0
  /\ ~hasSkillAccess(RequiredOfCall, call.userSkills)
  /\ ret.value.name = "gated"

\* Every text the phrases of the given skills can make, one phrase per skill
\* that has phrases, in the order of the skills.
RECURSIVE PhraseLists(_)
PhraseLists(skills) ==
  IF skills = <<>> THEN {<<>>}
  ELSE LET choices == PhraseArray(parseSkill(Head(skills)), NoAccessMessages.skill_phrases)
       IN IF Len(choices) = 0 THEN PhraseLists(Tail(skills))
          ELSE {<<choices[i]>> \o rest :
                  i \in 1..Len(choices), rest \in PhraseLists(Tail(skills))}

WrappersOfCall ==
  IF "type" \in DOMAIN call.clueData
       /\ call.clueData.type \in DOMAIN NoAccessMessages.wrappers
    THEN NoAccessMessages.wrappers[call.clueData.type]
    ELSE NoAccessMessages.wrappers["_default"]

\* The messages the clue's whole skill list and its type can produce.
MessagesOfCall ==
  {Replace(WrappersOfCall[w], Placeholder,
           joinWithOr(IF phrases = <<>> THEN <<FallbackPhrase>> ELSE phrases)) :
     w \in 1..Len(WrappersOfCall), phrases \in PhraseLists(RequiredOfCall)}

\* C3: a clue that is neither bypassed nor gated and whose skills the player
\* does not satisfy resolves 'skill-locked', with suggestedCharacters equal
\* to the clue's accessChars and a message made from the clue's whole
\* required-skill list and its type.
C3_SkillLockedCarriesData ==
  (Resolved /\ ~InUnlockedClues /\ ~ActBlocks
     /\ ~hasSkillAccess(RequiredOfCall, call.userSkills))
  => /\ ret.value.name = "skill-locked"
     /\ ("accessChars" \in DOMAIN call.clueData
           => /\ "suggestedCharacters" \in DOMAIN ret.value
              /\ ret.value.suggestedCharacters = call.clueData.accessChars)
     /\ ("accessChars" \notin DOMAIN call.clueData
           => "suggestedCharacters" \notin DOMAIN ret.value)
     /\ ret.value.message \in MessagesOfCall

C3_Witness ==
  /\ Resolved /\ ~InUnlockedClues /\ ~ActBlocks
  /\ RequiredOfCall = <<ART_2, MED_1>>
  /\ call.userSkills = <<ART_1>>
  /\ "accessChars" \in DOMAIN call.clueData
  /\ ret.value.name = "skill-locked"
  /\ ret.value.suggestedCharacters = <<"Alice", "Bob">>
  /\ ret.value.message =
       <<"Without ", "expert artistic knowledge", " or ", "medical training",
         " the text stays mute.">>

\* C4: a clue that is not gated and has no required skills resolves
\* 'unlocked' for every player skill list; so does a clue that is not gated
\* and whose skills the player satisfies.
C4_OpenClueUnlocked ==
  (Resolved /\ ~ActBlocks
     /\ (Len(RequiredOfCall) = 0 \/ hasSkillAccess(RequiredOfCall, call.userSkills)))
  => ret.value.name = "unlocked"

C4_Witness ==
  /\ Resolved /\ ~InUnlockedClues /\ ~ActBlocks
  /\ "skills" \notin DOMAIN call.clueData
  /\ call.userSkills = <<>>
  /\ ret.value.name = "unlocked"

----------------------------------------------------------------------------
(* Claims about hasSkillAccess, checked under SpecSkills *)

Matched == call.fn = "hasSkillAccess" /\ ret.done

\* The identifier of a category at a level; level 0 is the bare category.
Identifier(category, level) ==
  IF level = 0 THEN category ELSE Suffixed(category, level)

AllLevels == Levels \cup {0}

\* The category and level an identifier of the universe was written from.
CategoryOf(id) ==
  CHOOSE c \in Categories : \E l \in AllLevels : Identifier(c, l) = id
LevelOf(id) ==
  CHOOSE l \in AllLevels : \E c \in Categories : Identifier(c, l) = id

\* C5: one required skill c_r against one user skill d_u is satisfied exactly
\* when the categories are equal and u >= r as numbers (10 satisfies 2, 1
\* does not), so another category never satisfies it.
C5_LevelMonotonic ==
  \A c, d \in Categories : \A r, u \in AllLevels :
    (Matched /\ call.requiredSkills = <<Identifier(c, r)>>
             /\ call.userSkills = <<Identifier(d, u)>>)
    => (ret.value <=> (c = d /\ u >= r))

C5_Witness ==
  /\ Matched
  /\ call.requiredSkills = <<ART_2>>
  /\ call.userSkills = <<Suffixed(ART, 10)>>
  /\ ret.value = TRUE

\* C6: a non-empty required list is satisfied exactly when some required
\* skill is met by some user skill of the same category at the same or a
\* higher level; an empty required list is satisfied by every user list.
C6_OrSemantics ==
  Matched =>
    (ret.value <=>
       \/ Len(call.requiredSkills) = 0
       \/ \E i \in 1..Len(call.requiredSkills) : \E j \in 1..Len(call.userSkills) :
            /\ CategoryOf(call.userSkills[j]) = CategoryOf(call.requiredSkills[i])
            /\ LevelOf(call.userSkills[j]) >= LevelOf(call.requiredSkills[i]))

C6_Witness ==
  /\ Matched
  /\ call.requiredSkills = <<ART_1, Suffixed(PERSONAL_ROMANO, 1)>>
  /\ call.userSkills = <<Suffixed(PERSONAL_ROMANO, 1)>>
  /\ ret.value = TRUE

----------------------------------------------------------------------------
(* Claims about getQuestClueIsKeyFor, checked under SpecQuest *)

Reported == call.fn = "getQuestClueIsKeyFor" /\ ret.done

KeysOfCall == IF "is_key" \in DOMAIN call.clueData THEN call.clueData.is_key ELSE <<>>
KeySet == {KeysOfCall[i] : i \in 1..Len(KeysOfCall)}

\* The active character has a side quest and its hashtag is among the keys.
ActiveSideQuestKeyed ==
  /\ call.characterId # "none"
  /\ call.characterId \in DOMAIN call.sideQuests
  /\ call.sideQuests[call.characterId] \in KeySet

\* C7: the main quest is reported whenever the clue is key for it; otherwise
\* the active character's side quest if the clue is key for it; otherwise
\* null.
C7_MainQuestPriority ==
  Reported =>
    /\ (MainQuest \in KeySet => ret.value = MainQuest)
    /\ (MainQuest \notin KeySet /\ ActiveSideQuestKeyed
          => ret.value = call.sideQuests[call.characterId])
    /\ (MainQuest \notin KeySet /\ ~ActiveSideQuestKeyed => ret.value = "null")

C7_Witness ==
  /\ Reported
  /\ call.characterId = "alice"
  /\ ActiveSideQuestKeyed
  /\ MainQuest \in KeySet
  /\ ret.value = MainQuest

----------------------------------------------------------------------------
(* Claims about recording a discovery, checked under Spec *)

ScannedNow == getScannedClues(localStorage)
UnlockedActsNow == getFromLocalStorage(localStorage, "unlocked_acts", <<>>)
UnlockedCluesNow == getManuallyUnlockedClues(localStorage)

NoDuplicates(arr) == \A i, j \in 1..Len(arr) : i # j => arr[i] # arr[j]

NoDuplicateRecords(store) ==
  /\ \A q \in DOMAIN getScannedClues(store) : NoDuplicates(getScannedClues(store)[q])
  /\ NoDuplicates(getFromLocalStorage(store, "unlocked_acts", <<>>))

KeysOf(c) == IF "is_key" \in DOMAIN Clues[c] THEN Clues[c].is_key ELSE <<>>

\* Recording the discovery of any clue twice in a row, from the store as it
\* is now, leaves what the first recording left, with no id listed twice.
SecondRunIsNoOp ==
  \A c \in ClueIds :
    LET once == processClueDiscovery(localStorage, Clues[c])
        earlier == markClueAsScanned(localStorage, Clues[c])
    IN /\ processClueDiscovery(once, Clues[c]) = once
       /\ NoDuplicateRecords(once)
       /\ markClueAsScanned(earlier, Clues[c]) = earlier
       /\ NoDuplicateRecords(earlier)

\* A handler that records a clue already recorded changes neither the
\* scanned record nor the unlocked acts.
RepeatChangesNothing ==
  event'.discovery = "repeat"
    => /\ localStorage'.scanned = localStorage.scanned
       /\ localStorage'.unlocked_acts = localStorage.unlocked_acts

\* C8: recording a discovery is idempotent: a second processClueDiscovery for
\* the same clue leaves scanned.all, every scanned[quest] and unlockedActs
\* as the first left them, without duplicates.
C8_DiscoveryIdempotent == [](SecondRunIsNoOp /\ NoDuplicateRecords(localStorage))
                            /\ [][RepeatChangesNothing]_vars

C8_Witness ==
  /\ event.op = "octogram"
  /\ event.discovery = "repeat"
  /\ event.clue = "K3"
  /\ ScannedNow.all = <<"K3">>
  /\ ScannedNow["bob_side_quest"] = <<"K3">>
  /\ UnlockedActsNow = <<ActIII>>

\* C9: recording a discovery lists the clue under every quest it is key for,
\* whichever quest is reported and whichever character is active.
C9_EveryKeyedQuestCounted ==
  /\ event.discovery # "none"
       => \A i \in 1..Len(KeysOf(event.clue)) :
            /\ KeysOf(event.clue)[i] \in DOMAIN ScannedNow
            /\ Includes(ScannedNow[KeysOf(event.clue)[i]], event.clue)
  /\ \A c \in ClueIds : \A i \in 1..Len(KeysOf(c)) :
       LET earlier == getScannedClues(markClueAsScanned(localStorage, Clues[c])) IN
       /\ KeysOf(c)[i] \in DOMAIN earlier
       /\ Includes(earlier[KeysOf(c)[i]], c)

C9_Witness ==
  /\ event.op = "load"
  /\ event.discovery = "first"
  /\ event.clue = "K3"
  /\ getCharacterProfile(localStorage).characterId = "alice"
  /\ event.reported = "null"
  /\ Includes(ScannedNow["bob_side_quest"], "K3")

GateOf(c) == Clues[c].story_gate_for

\* A handler that recorded a gate clue's discovery left the act unlocked, and
\* so is the act of a gate clue whose page shows it unlocked.
GateClueUnlocksAct ==
  /\ (event.discovery # "none" /\ "story_gate_for" \in DOMAIN Clues[event.clue])
       => Includes(UnlockedActsNow, GateOf(event.clue))
  /\ (page.open /\ page.state.name = "unlocked"
         /\ "story_gate_for" \in DOMAIN Clues[page.clue])
       => Includes(UnlockedActsNow, GateOf(page.clue))

\* A page that resolved 'gated' shows a clue whose act is not unlocked.
GatedOnlyWhileActLocked ==
  (page.open /\ page.state.name = "gated")
    => ~Includes(UnlockedActsNow, Clues[page.clue].act)

\* Short of a reset, an unlocked act stays unlocked.
ActStaysUnlocked ==
  \A c \in ClueIds :
    ("story_gate_for" \in DOMAIN Clues[c]
       /\ Includes(UnlockedActsNow, GateOf(c)) /\ event'.op # "reset")
    => Includes(getFromLocalStorage(localStorage', "unlocked_acts", <<>>), GateOf(c))

\* C10: once a clue with story_gate_for = A is discovered, A is in
\* unlockedActs, and until a reset no clue of act A resolves 'gated'.
C10_StoryGateUnlock == [](GateClueUnlocksAct /\ GatedOnlyWhileActLocked)
                         /\ [][ActStaysUnlocked]_vars

C10_Witness ==
  /\ Includes(UnlockedCluesNow, "K3")
  /\ Includes(UnlockedActsNow, ActIII)
  /\ page.open /\ page.clue = "K4"
  /\ page.state.name = "unlocked"
  /\ event.discovery = "first"

----------------------------------------------------------------------------
(* Claims about the puzzle bypass and the growth of the player state *)

Count(arr, x) == Cardinality({i \in 1..Len(arr) : arr[i] = x})

Elements(arr) == {arr[i] : i \in 1..Len(arr)}

OtherKeys == {"unlocked_acts", "scanned", "character_profile"}

\* What one or more bypasses of clue c leave, from the store 'before'.
BypassedOnce(before, after, c) ==
  /\ Count(getManuallyUnlockedClues(after), c) = 1
  /\ Elements(getManuallyUnlockedClues(after))
       = Elements(getManuallyUnlockedClues(before)) \cup {c}
  /\ \A k \in OtherKeys : after[k] = before[k]

\* From the store as it is now, bypassing any clue once, twice or three
\* times leaves the same list, with the clue in it exactly once.
RepeatedBypassIsOne ==
  \A c \in ClueIds :
    LET once == saveManualUnlock(localStorage, c)
        twice == saveManualUnlock(once, c)
        earlier == markClueAsUnlocked(localStorage, c)
    IN /\ BypassedOnce(localStorage, once, c)
       /\ twice = once
       /\ saveManualUnlock(twice, c) = once
       /\ BypassedOnce(localStorage, earlier, c)
       /\ markClueAsUnlocked(earlier, c) = earlier

\* After the octogram callback the page shows the clue unlocked and the
\* clue is listed once.
SolvedPageIsUnlocked ==
  event.op = "octogram"
    => /\ page.open /\ page.clue = event.clue
       /\ page.state.name = "unlocked"
       /\ Count(UnlockedCluesNow, event.clue) = 1

\* The octogram callback adds its clue to the bypass list and nothing else.
SolveAddsOnlyItsClue ==
  event'.op = "octogram"
    => Elements(getManuallyUnlockedClues(localStorage'))
         = Elements(UnlockedCluesNow) \cup {event'.clue}

\* C11: the puzzle bypass is idempotent: after saveManualUnlock(clueId) ran
\* one or more times the bypass list holds clueId exactly once and no other
\* id was added or removed; after the octogram callback the page is 'unlocked'.
C11_BypassIdempotent ==
  /\ [](RepeatedBypassIsOne /\ SolvedPageIsUnlocked /\ NoDuplicates(UnlockedCluesNow))
  /\ [][SolveAddsOnlyItsClue]_vars

C11_Witness ==
  /\ event.op = "octogram"
  /\ event.clue = "K2"
  /\ UnlockedCluesNow = <<"K3", "K2">>
  /\ page.state.name = "unlocked"

\* Every id the store 'before' lists, in the bypass list, the unlocked acts,
\* scanned.all or a quest's list, the store 'after' lists too.
Grows(before, after) ==
  /\ Elements(getManuallyUnlockedClues(before))
       \subseteq Elements(getManuallyUnlockedClues(after))
  /\ Elements(getFromLocalStorage(before, "unlocked_acts", <<>>))
       \subseteq Elements(getFromLocalStorage(after, "unlocked_acts", <<>>))
  /\ \A q \in DOMAIN getScannedClues(before) :
       /\ q \in DOMAIN getScannedClues(after)
       /\ Elements(getScannedClues(before)[q]) \subseteq Elements(getScannedClues(after)[q])

\* Each writing operation other than the reset, run on the store as it is
\* now, only adds.
WritersOnlyAdd ==
  /\ \A c \in ClueIds :
       /\ Grows(localStorage, saveManualUnlock(localStorage, c))
       /\ Grows(localStorage, processClueDiscovery(localStorage, Clues[c]))
       /\ Grows(localStorage, markClueAsUnlocked(localStorage, c))
       /\ Grows(localStorage, markClueAsScanned(localStorage, Clues[c]))
  /\ \A ch \in CharacterIds :
       Grows(localStorage, storeCharacterProfile(localStorage, ch, Characters[ch].skills))

\* A step that is not a reset removes nothing.
StepOnlyAdds == event'.op # "reset" => Grows(localStorage, localStorage')

\* C12: monotonic growth: page loads, octogram solves and character switches
\* only add to unlockedClueIds, unlockedActs, scanned.all and every
\* scanned[quest]; nothing but the reset removes an id.
C12_MonotonicGrowth == []WritersOnlyAdd /\ [][StepOnlyAdds]_vars

C12_Witness ==
  /\ event.op = "character"
  /\ UnlockedCluesNow = <<"K3">>
  /\ UnlockedActsNow = <<ActIII, ActII>>
  /\ Elements(ScannedNow.all) = {"K1", "K3", "K4"}
  /\ Elements(ScannedNow[MainQuest]) = {"K1"}

----------------------------------------------------------------------------
(* Claims about the reset *)

GatedActClues == {c \in ClueIds : IsGatedAct(Clues[c], <<>>)}

\* The store is the first-visit store and every clue of an act that is not
\* always open resolves 'gated' on it.
FullyCleared(store) ==
  /\ store = FirstVisit
  /\ \A c \in GatedActClues :
       determineAccessState(store, Clues[c],
                            FirstPick(Len(SkillsOf(Clues[c])) + 1)).name = "gated"

\* The reset of the storage helpers (src/unnamed/part_004), run on the store
\* as it is now or by the reset page, leaves the first-visit store.
ResetClearsFourKeys ==
  /\ FullyCleared(resetInvestigation(localStorage))
  /\ event.op = "reset" => FullyCleared(localStorage)

\* C13: reset is a full clear: after resetInvestigation, in each of its
\* versions, the bypass list, the unlocked acts, the scanned record and the
\* character profile are all empty, the store is the first-visit store, and
\* a clue of an act that is not always open resolves 'gated' again.
C13_ResetIsFullClear ==
  /\ ResetClearsFourKeys
  /\ FullyCleared(resetInvestigationMainJs(localStorage))

\* An act is unlocked, and the reset of src/js/main.js leaves it unlocked.
C13_Witness ==
  /\ Includes(UnlockedActsNow, ActII)
  /\ ScannedNow.all # <<>>
  /\ resetInvestigationMainJs(localStorage).unlocked_acts = Stored(UnlockedActsNow)
  /\ resetInvestigationMainJs(localStorage).scanned = Absent
  /\ determineAccessState(resetInvestigationMainJs(localStorage), Clues["K2"],
                          FirstPick(2)).name = "skill-locked"

----------------------------------------------------------------------------
(* Claims about the shape of the resolver's result, checked under SpecResolve *)

StateNames == {"unlocked", "gated", "skill-locked"}

\* C14: with a skill-matching function supplied, resolveClueState returns
\* one of the names 'unlocked', 'gated', 'skill-locked' and nothing else, and
\* only a 'skill-locked' result carries message or suggestedCharacters.
C14_ThreeStatesOnly ==
  Resolved =>
    /\ "name" \in DOMAIN ret.value
    /\ ret.value.name \in StateNames
    /\ ret.value.name # "skill-locked" => DOMAIN ret.value = {"name"}
    /\ ret.value.name = "skill-locked"
         => /\ "message" \in DOMAIN ret.value
            /\ DOMAIN ret.value \subseteq {"name", "message", "suggestedCharacters"}

\* A gated clue that would otherwise be skill-locked, with characters to
\* suggest: the result is the bare 'gated'.
C14_Witness ==
  /\ Resolved
  /\ ret.value = Gated
  /\ ~InUnlockedClues
  /\ "accessChars" \in DOMAIN call.clueData
  /\ ~hasSkillAccess(RequiredOfCall, call.userSkills)

----------------------------------------------------------------------------
(* Claims about the suggestion list, checked under SpecRoster *)

Listed == call.fn = "charactersWithAccess" /\ ret.done

NonPlayer(char) == "is_player" \in DOMAIN char /\ char.is_player = FALSE

\* The name each character of the cast is suggested under.
DisplayName(char) ==
  CASE char.id = <<"a">> -> <<"A", "r", "t", "i", "s", "t">>
    [] char.id = <<"b">> -> <<"B", "o", "b">>
    [] char.id = <<"n">> -> <<"N", "a", "r", "r", "a", "t", "o", "r">>
    [] char.id = <<"t">> -> <<"T", "h", "e", "o">>
    [] OTHER -> char.id

\* A character's normalized skills; none when it has no skills entry.
NormalizedSkills(char) ==
  IF "skills" \in DOMAIN char THEN convertSkills(char.skills) ELSE <<>>

\* C15: charactersWithAccess never returns the name of a character whose
\* is_player is false, even when that character's skills meet the requirement.
C15_NonPlayersExcluded ==
  Listed =>
    \A i \in 1..Len(call.characters) :
      NonPlayer(call.characters[i])
        => DisplayName(call.characters[i]) \notin Elements(ret.value)

\* A non-player whose skills meet the requirement stands in the roster before
\* a player who is listed.
C15_Witness ==
  /\ Listed
  /\ Len(call.characters) = 3
  /\ NonPlayer(call.characters[1])
  /\ hasSkillAccess(call.clueSkills, NormalizedSkills(call.characters[1]))
  /\ ret.value = <<DisplayName(call.characters[3])>>

\* The roster positions of the player characters whose normalized skills
\* satisfy the requirement.
Qualifying ==
  {i \in 1..Len(call.characters) :
     /\ ~NonPlayer(call.characters[i])
     /\ hasSkillAccess(call.clueSkills, NormalizedSkills(call.characters[i]))}

Rank(i) == Cardinality({j \in Qualifying : j <= i})

\* The list is the names of the qualifying players, in roster order.
ListsExactlyTheQualifying ==
  /\ Len(ret.value) = Cardinality(Qualifying)
  /\ \A i \in Qualifying : ret.value[Rank(i)] = DisplayName(call.characters[i])

\* C16, as stated: for every required set, empty or not, the list is exactly
\* the player characters for whom hasSkillAccess holds, in roster order.
C16_ListMatchesAccess == Listed => ListsExactlyTheQualifying

\* C16, amended: for every non-empty required set the list is exactly the
\* player characters for whom hasSkillAccess holds, in roster order with the
\* leading 'The ' stripped; for the empty required set the list is empty.
C16_ListMatchesAccessWhenRequired ==
  Listed =>
    IF call.clueSkills = <<>> THEN ret.value = <<>>
    ELSE ListsExactlyTheQualifying

C16_Witness ==
  /\ Listed
  /\ call.clueSkills # <<>>
  /\ Len(call.characters) = 3
  /\ Qualifying = {1, 3}
  /\ ret.value = <<<<"d", "a", "n", "a">>, <<"A", "r", "t", "i", "s", "t">>>>

\* With nothing required every player has access, yet none is listed.
C16_EmptyRequirementWitness ==
  /\ Listed
  /\ call.clueSkills = <<>>
  /\ Qualifying # {}
  /\ ret.value = <<>>

----------------------------------------------------------------------------
(* Claims about skill normalization, checked under SpecConvert *)

Converted == call.fn = "convertSkills" /\ ret.done

Truthy(v) == v # <<>> /\ v # <<"null">>

LevelEntries(skills, level) ==
  IF level \in DOMAIN skills THEN SelectSeq(skills[level], Truthy) ELSE <<>>

WithLevel(entries, level) == [i \in 1..Len(entries) |-> Suffixed(entries[i], level)]

\* The flat list a skills value stands for: a flat list's truthy entries; a
\* nested object's expert entries at level 2, then its basic entries at
\* level 1, then its personal entries as they are.
EquivalentFlat(skills) ==
  IF skills.isArray THEN SelectSeq(skills.items, Truthy)
  ELSE WithLevel(LevelEntries(skills, "expert"), 2)
         \o WithLevel(LevelEntries(skills, "basic"), 1)
         \o LevelEntries(skills, "personal")

RequirementSets == SeqsUpTo({ART_1, ART_2, MED_2, PERSONAL_ROMANO}, MaxReq)

\* C17: convertSkills maps the nested {expert, basic, personal} object to the
\* flat list with suffixes _2, _1 and none, returns a flat list unchanged but
\* for its falsy entries, is idempotent, and hasSkillAccess answers the same
\* for the converted skills as for the equivalent flat list.
C17_SkillNormalization ==
  Converted =>
    /\ ret.value = EquivalentFlat(call.skills)
    /\ convertSkills([isArray |-> TRUE, items |-> ret.value]) = ret.value
    /\ \A required \in RequirementSets :
         hasSkillAccess(required, ret.value)
           = hasSkillAccess(required, EquivalentFlat(call.skills))

\* A nested object with an expert, a basic and a personal entry and a falsy
\* one dropped: expert art qualifies for art_2, basic med does not for med_2.
C17_Witness ==
  /\ Converted
  /\ ~call.skills.isArray
  /\ ret.value = <<ART_2, MED_1, PERSONAL_ROMANO>>
  /\ call.skills.expert = <<<<>>, ART>>
  /\ hasSkillAccess(<<ART_2>>, ret.value)
  /\ ~hasSkillAccess(<<MED_2>>, ret.value)

----------------------------------------------------------------------------
(* Claims about switching character, checked under Spec *)

ProfileNow == getCharacterProfile(localStorage)

\* The flat skills of each character of the roster.
SkillsOfCharacter(ch) ==
  CASE ch = "alice" -> <<ART_2, PERSONAL_ROMANO>>
    [] ch = "bob" -> <<MED_1>>
    [] ch = "carol" -> <<>>

\* After a character was picked the profile holds that character's skills
\* and no other.
ProfileIsTheNewCharacter ==
  event.op = "character"
    => /\ ~ProfileNow.isNull
       /\ ProfileNow.characterId \in CharacterIds
       /\ ProfileNow.skills = SkillsOfCharacter(ProfileNow.characterId)

\* Picking a character leaves the bypass list, the unlocked acts and the
\* scanned record as they were.
SwitchKeepsProgress ==
  event'.op = "character"
    => /\ localStorage'.unlocked = localStorage.unlocked
       /\ localStorage'.unlocked_acts = localStorage.unlocked_acts
       /\ localStorage'.scanned = localStorage.scanned

\* C18: switching character replaces userSkills wholesale: the stored skills
\* are exactly the new character's normalized skills, and unlockedClueIds,
\* unlockedActs and scanned are unchanged.
C18_SwitchReplacesSkills == []ProfileIsTheNewCharacter /\ [][SwitchKeepsProgress]_vars

\* Bob is picked after Alice's skills opened K2 (only art_2 opens it without
\* the octogram): nothing of Alice's skills is left, her progress is.
C18_Witness ==
  /\ event.op = "character"
  /\ ProfileNow.characterId = "bob"
  /\ ProfileNow.skills = <<MED_1>>
  /\ Includes(ScannedNow.all, "K2")
  /\ ~Includes(UnlockedCluesNow, "K2")
  /\ Includes(UnlockedActsNow, ActII)

----------------------------------------------------------------------------
(* Claims about message composition, checked under SpecMessage *)

Built == call.fn = "buildSkillLockedMessage" /\ ret.done

\* The first phrase the table holds for a skill, <<>> when it holds none.
FirstPhrase(skill) ==
  CASE skill = <<"a", "r", "t", "_", "1">> -> <<"artistic knowledge">>
    [] skill = <<"a", "r", "t", "_", "2">> -> <<"expert artistic knowledge">>
    [] skill = <<"m", "e", "d", "_", "1">> -> <<"medical training">>
    [] skill = PERSONAL_ROMANO -> <<"Romano's memories">>
    [] OTHER -> <<>>

RECURSIVE FirstPhrases(_)
FirstPhrases(skills) ==
  IF skills = <<>> THEN <<>>
  ELSE FirstPhrase(Head(skills)) \o FirstPhrases(Tail(skills))

\* 'A', 'A or B', 'A, B, or C', 'A, B, C, or D', ...
OxfordOr(items) ==
  LET n == Len(items) IN
  IF n = 2 THEN <<items[1], " or ", items[2]>>
  ELSE [k \in 1..(2 * n - 1) |->
          IF k % 2 = 1 THEN items[(k + 1) \div 2]
          ELSE IF k = 2 * n - 2 THEN ", or " ELSE ", "]

\* The text before and after the placeholder in the first wrapper of a type;
\* types without variants of their own use the first '_default' wrapper.
FirstWrapperBefore(clueType) ==
  IF clueType = "Document" THEN "This document requires "
  ELSE "The meaning here escapes you. You'd need "

FirstWrapperAfter(clueType) == IF clueType = "Document" THEN " to decipher." ELSE "."

ExpectedRequirements ==
  IF FirstPhrases(call.missingSkills) = <<>> THEN <<"the required expertise">>
  ELSE OxfordOr(FirstPhrases(call.missingSkills))

DeterministicCall ==
  /\ Built
  /\ call.firstItemPicker
  /\ call.noAccessMessages = FullTable
  /\ call.parseSkillFn = "parseSkill"

\* C19: with the first-item picker the message is the first wrapper of the
\* clue type (the first '_default' one when the type is absent or has no
\* variants) with the placeholder replaced by the Oxford-'or' join of the
\* first phrase of each required skill that resolves, in requirement order,
\* or by 'the required expertise' when none resolves.
C19_DeterministicMessage ==
  DeterministicCall =>
    ret.value = <<FirstWrapperBefore(call.clueType)>> \o ExpectedRequirements
                  \o <<FirstWrapperAfter(call.clueType)>>

\* Three skills resolve, so the join has a comma and ', or '; the clue type
\* has no variants of its own.
C19_Witness ==
  /\ DeterministicCall
  /\ call.missingSkills = <<ART_2, MED_1, PERSONAL_ROMANO>>
  /\ call.clueType = "Vision"
  /\ ret.value = <<"The meaning here escapes you. You'd need ",
                   "expert artistic knowledge", ", ", "medical training", ", or ",
                   "Romano's memories", ".">>

\* No skill of the list resolves: the fallback phrase stands in.
C19_FallbackPhraseWitness ==
  /\ DeterministicCall
  /\ call.missingSkills = <<HIST_1, MED_2>>
  /\ call.clueType = "Document"
  /\ ret.value = <<"This document requires ", "the required expertise", " to decipher.">>

\* The call lacks what the composition needs: the table, its skill_phrases,
\* its wrappers, or a skill parser.
Unequipped ==
  \/ call.noAccessMessages = NoTable
  \/ "skill_phrases" \notin DOMAIN call.noAccessMessages
  \/ "wrappers" \notin DOMAIN call.noAccessMessages
  \/ call.parseSkillFn = "none"

\* C20: buildSkillLockedMessage returns the fixed string "You don't have the
\* required skills to access this clue." whenever the template table is
\* missing, lacks skill_phrases, lacks wrappers, or no skill parser is
\* available, for every skill list and clue type, and raises nothing.
C20_FixedFallback ==
  (Built /\ Unequipped)
    => ret.value = <<"You don't have the required skills to access this clue.">>

\* The table has phrases for every listed skill but no wrappers.
C20_Witness ==
  /\ Built
  /\ call.noAccessMessages = TableWithoutWrappers
  /\ call.parseSkillFn = "parseSkill"
  /\ call.missingSkills = <<ART_1, MED_1>>
  /\ call.clueType = "Document"
  /\ ~call.firstItemPicker
  /\ ret.value = FixedFallbackMessage

\* No parser is at hand although the table is complete.
C20_NoParserWitness ==
  /\ Built
  /\ call.noAccessMessages = FullTable
  /\ call.parseSkillFn = "none"
  /\ call.missingSkills # <<>>
  /\ ret.value = FixedFallbackMessage

----------------------------------------------------------------------------
(* C21: identifiers that are empty or not strings *)

Parsed == call.fn = "parseSkill" /\ ret.done

InvalidIdentifier(v) == v = <<>> \/ ~IsString(v)

WellFormed(v) == ~InvalidIdentifier(v)

WellFormedOnly(skills) == SelectSeq(skills, WellFormed)

\* C21: parseSkill returns null for an empty or non-string identifier and an
\* object with base and level for every other one; in hasSkillAccess such an
\* identifier matches nothing on either side: with a non-empty required list
\* the answer is the one for the lists without their invalid entries, and it
\* is false when no required entry is well formed. Every call returns a value.
C21_InvalidIdentifiersRejected ==
  /\ Parsed =>
       /\ InvalidIdentifier(call.skill) => ret.value = ParsedNull
       /\ WellFormed(call.skill) => ~ret.value.isNull
  /\ (Matched /\ call.requiredSkills # <<>>) =>
       /\ ret.value \in BOOLEAN
       /\ ret.value =
            (/\ WellFormedOnly(call.requiredSkills) # <<>>
             /\ hasSkillAccess(WellFormedOnly(call.requiredSkills),
                               WellFormedOnly(call.userSkills)))

\* A number is required next to nothing else and the player holds the same
\* number and a real skill: no access.
C21_Witness ==
  /\ Matched
  /\ call.requiredSkills = <<JsNumber, <<>> >>
  /\ call.userSkills = <<JsNumber, ART_2>>
  /\ ret.value = FALSE

\* parseSkill(null) has returned null.
C21_ParseWitness ==
  /\ Parsed
  /\ call.skill = JsNull
  /\ ret.value = ParsedNull

----------------------------------------------------------------------------
(* C22: when the resolver raises *)

Raised == Resolved /\ Has(ret.value, "throws")

WithoutMatcher == call.hasSkillAccessFn = "none"

\* C22: resolveClueState raises whenever no skill-matching function is at
\* hand, for every clue and player state, and on no other input.
C22_RaisesOnlyWithoutMatcher ==
  Resolved => (Has(ret.value, "throws") <=> WithoutMatcher)

\* A matcher is at hand, the clue is skill-locked and the template table's
\* only wrapper list is an empty _default: the resolver has raised.
C22_Witness ==
  /\ Raised
  /\ ~WithoutMatcher
  /\ call.noAccessMessages = TableEmptyDefault
  /\ call.clueData = [id |-> "K1", skills |-> <<ART_2>>]
  /\ call.userSkills = <<>>
  /\ call.unlockedClues = <<>>
  /\ ret.value = TypeErrorThrown

\* Without a matcher every call raises the resolver's own error.
C22_MissingMatcherRaises ==
  (Resolved /\ WithoutMatcher) => ret.value = Thrown

----------------------------------------------------------------------------
(* C23: reads and writes on degraded storage *)

TheDefault == [isDefault |-> TRUE]

AnyValue == [all |-> <<"K1">>]

\* The options determineAccessState passes for a player without any state.
EmptyPlayerOptions(random) ==
  [unlockedClues |-> <<>>, unlockedActs |-> <<>>, userSkills |-> <<>>,
   noAccessMessages |-> NoAccessMessages, hasSkillAccessFn |-> "hasSkillAccess",
   parseSkillFn |-> "parseSkill", randomFn |-> random]

ReadFallsBack ==
  \A k \in StorageKeys :
    (\/ ~localStorage.available
     \/ ~localStorage[k].present
     \/ localStorage[k] = Unparsable)
      => getFromLocalStorage(localStorage, k, TheDefault) = TheDefault

RejectedWriteReturnsFalse ==
  \A k \in StorageKeys :
    /\ saveToLocalStorageReturn(localStorage, k, AnyValue) = ~WriteRejected(localStorage)
    /\ WriteRejected(localStorage)
         => saveToLocalStorage(localStorage, k, AnyValue) = localStorage
    /\ ~WriteRejected(localStorage)
         => saveToLocalStorage(localStorage, k, AnyValue)[k] = Stored(AnyValue)

LoadCompletesWithoutStorage ==
  (event'.op = "load" /\ ~localStorage.available)
    => /\ page'.open
       /\ page'.clue = event'.clue
       /\ \E random \in Pickers(Len(SkillsOf(Clues[page'.clue])) + 1) :
            page'.state = resolveClueState(Clues[page'.clue], EmptyPlayerOptions(random))
       /\ localStorage' = localStorage

\* C23: getFromLocalStorage returns the caller's default when the key is
\* absent, storage cannot be reached or the stored item does not parse;
\* saveToLocalStorage returns false and stores nothing when the write is
\* rejected, true otherwise; with storage out of reach a clue page load still
\* completes, showing the state resolved from the empty player state.
C23_StorageDegrades ==
  /\ [](ReadFallsBack /\ RejectedWriteReturnsFalse)
  /\ [][LoadCompletesWithoutStorage]_vars

\* Storage is out of reach and the page of a clue open to everyone was loaded:
\* it shows 'unlocked', its discovery was attempted, nothing is stored.
C23_Witness ==
  /\ ~localStorage.available
  /\ page.open
  /\ page.clue = "K1"
  /\ page.state = Unlocked
  /\ event.op = "load"
  /\ event.discovery = "first"
  /\ localStorage.scanned = Absent

\* The scanned item does not parse and a page that needs it was loaded: the
\* discovery has replaced it with a fresh record.
C23_UnparsableWitness ==
  /\ page.open
  /\ page.clue = "K1"
  /\ event.op = "load"
  /\ localStorage.unlocked = Unparsable
  /\ localStorage.scanned.present
  /\ ~Has(localStorage.scanned, "unparsable")

----------------------------------------------------------------------------
(* C24: two page loads at once *)

BothFinished == \A t \in Tabs : page[t].pc = "done"

\* The discovery tab t set out to record is in the store.
DiscoveryKept(t) ==
  /\ Includes(ScannedNow.all, page[t].clue)
  /\ \A i \in 1..Len(KeysOf(page[t].clue)) :
       /\ KeysOf(page[t].clue)[i] \in DOMAIN ScannedNow
       /\ Includes(ScannedNow[KeysOf(page[t].clue)[i]], page[t].clue)

\* C24: when two page loads that share one store interleave the reads and
\* writes of their read-modify-write on 'scanned', then once both have
\* finished the id of each clue they discovered is in scanned.all and in every
\* quest set the clue is key for.
C24_NoDiscoveryDropped ==
  BothFinished => \A t \in Tabs : page[t].discovers => DiscoveryKept(t)

\* Both tabs set out to record a discovery, of different clues, both have
\* finished, and the store lacks the id one of them recorded.
C24_Witness ==
  /\ BothFinished
  /\ page["A"].discovers /\ page["B"].discovers
  /\ page["A"].clue = "K2" /\ page["B"].clue = "K3"
  /\ ~Includes(ScannedNow.all, "K2")
  /\ Includes(ScannedNow.all, "K3")

----------------------------------------------------------------------------
(* C25: what a page load leaves alone *)

\* The step is a page load.
Loads == event'.op = "load" /\ page'.open

\* scanned, unlocked_acts and unlocked are what they were.
ProgressUntouched ==
  /\ localStorage'.scanned = localStorage.scanned
  /\ localStorage'.unlocked_acts = localStorage.unlocked_acts
  /\ localStorage'.unlocked = localStorage.unlocked

LoadRecordsOnlyFreshUnlocked ==
  Loads =>
    /\ (event'.discovery # "none")
         <=> (/\ page'.state.name = "unlocked"
              /\ ~Includes(ScannedNow.all, page'.clue))
    /\ (\/ page'.state.name \in {"gated", "skill-locked"}
        \/ Includes(ScannedNow.all, page'.clue))
         => ProgressUntouched
    /\ ~ProgressUntouched
         => /\ page'.state.name = "unlocked"
            /\ ~Includes(ScannedNow.all, page'.clue)
            /\ Includes(getScannedClues(localStorage').all, page'.clue)

\* C25: a page load records a discovery only when the clue resolves
\* 'unlocked' and its id is not yet in scanned.all; a load that resolves
\* 'gated' or 'skill-locked', and a reload of a scanned clue, leave scanned,
\* the unlocked acts and the manually unlocked clue ids as they were.
C25_LoadFrame == [][LoadRecordsOnlyFreshUnlocked]_vars

\* With progress on record, a skill-locked page was loaded and recorded nothing.
C25_Witness ==
  /\ event.op = "load"
  /\ page.open
  /\ page.state.name = "skill-locked"
  /\ event.discovery = "none"
  /\ Includes(ScannedNow.all, "K1")
  /\ ~Includes(ScannedNow.all, page.clue)

\* A clue scanned before was loaded again: its page is unlocked, nothing recorded.
C25_ReloadWitness ==
  /\ event.op = "load"
  /\ page.open
  /\ page.state.name = "unlocked"
  /\ event.discovery = "none"
  /\ Includes(ScannedNow.all, page.clue)

----------------------------------------------------------------------------
(* C26: no clue is read ahead of its act *)

\* The clue declares an act that is not always open and not unlocked now.
ActStillLocked(c) ==
  /\ "act" \in DOMAIN Clues[c]
  /\ Clues[c].act \notin {"act_prologue", "act_i_setting"}
  /\ Clues[c].act \notin Elements(UnlockedActsNow)

\* C26: in every state reached from the first visit by page loads, character
\* choices, octogram solves and resets, a clue whose act is neither always open
\* nor unlocked resolves 'gated', is not shown unlocked by the open page, and
\* its id is not among the manually unlocked clue ids.
C26_NarrativePacing ==
  \A c \in ClueIds :
    ActStillLocked(c) =>
      /\ c \notin Elements(UnlockedCluesNow)
      /\ determineAccessState(localStorage, Clues[c],
                              FirstPick(Len(SkillsOf(Clues[c])) + 1)).name = "gated"
      /\ (page.open /\ page.clue = c) => page.state.name = "gated"

\* A clue of the second act was opened with the octogram after its act was
\* unlocked, while a clue of the third act is still behind its gate.
C26_Witness ==
  /\ "K2" \in Elements(UnlockedCluesNow)
  /\ ~ActStillLocked("K2")
  /\ ActStillLocked("K4")
  /\ page.open /\ page.clue = "K4" /\ page.state.name = "gated"

----------------------------------------------------------------------------
(* C27: a clue's state only moves forward *)

StateRank(name) ==
  IF name = "gated" THEN 1 ELSE IF name = "skill-locked" THEN 2 ELSE 3

\* The state clue c resolves to on store.
ResolvesTo(store, c) ==
  determineAccessState(store, Clues[c], FirstPick(Len(SkillsOf(Clues[c])) + 1)).name

\* The step keeps the active character and is not a reset.
SameCharacterNoReset ==
  /\ localStorage'.character_profile = localStorage.character_profile
  /\ event'.op # "reset"

NeverBackwards ==
  SameCharacterNoReset =>
    /\ \A c \in ClueIds :
         StateRank(ResolvesTo(localStorage', c)) >= StateRank(ResolvesTo(localStorage, c))
    /\ (page.open /\ page'.open /\ page'.clue = page.clue)
         => StateRank(page'.state.name) >= StateRank(page.state.name)

\* C27: across page loads and octogram solves, while the active character
\* stays and no reset is made, the state a clue resolves to, and the state its
\* open page shows, never moves backwards in the order gated, skill-locked,
\* unlocked.
C27_StateMonotone == [][NeverBackwards]_vars

\* A clue of the second act went all the way: its act was unlocked by the gate
\* clue, its page loaded skill-locked, and its octogram was solved.
C27_Witness ==
  /\ event.op = "octogram"
  /\ page.open /\ page.clue = "K2" /\ page.state.name = "unlocked"
  /\ ResolvesTo(localStorage, "K2") = "unlocked"
  /\ ResolvesTo(FirstVisit, "K2") = "gated"
  /\ "K1" \in Elements(ScannedNow.all)

----------------------------------------------------------------------------
(* C28: scanned.all holds every recorded id *)

QuestKeysOf(scanned) == DOMAIN scanned \ {"all"}

AllIsSuperset(store) ==
  LET scanned == getScannedClues(store) IN
  /\ \A q \in QuestKeysOf(scanned) : Elements(scanned[q]) \subseteq Elements(scanned.all)
  /\ Elements(getManuallyUnlockedClues(store)) \subseteq Elements(scanned.all)

\* C28: in every reachable state scanned.all contains every id of every
\* scanned[quest] list and every manually unlocked clue id; so it does after
\* the reset of main.js, which removes 'scanned' and 'unlocked' together, and
\* after the octogram callback of main.js, which marks the clue unlocked and
\* scanned.
C28_AllIsSuperset ==
  /\ AllIsSuperset(localStorage)
  /\ AllIsSuperset(resetInvestigationMainJs(localStorage))
  /\ \A c \in ClueIds :
       AllIsSuperset(markClueAsScanned(markClueAsUnlocked(localStorage, c), Clues[c]))

\* Two quests have progress and a clue was opened with the octogram.
C28_Witness ==
  /\ "K3" \in Elements(UnlockedCluesNow)
  /\ "K3" \in Elements(ScannedNow.all)
  /\ MainQuest \in DOMAIN ScannedNow
  /\ "bob_side_quest" \in DOMAIN ScannedNow
  /\ ScannedNow[MainQuest] = <<"K1">>
  /\ ScannedNow["bob_side_quest"] = <<"K3">>

----------------------------------------------------------------------------
(* C29: a quest's list holds its key clues only *)

\* The clues that are key for quest q.
KeyCluesOf(q) == {c \in ClueIds : q \in Elements(KeysOf(c))}

QuestListsBounded(store) ==
  LET scanned == getScannedClues(store) IN
  \A q \in QuestKeysOf(scanned) :
    /\ Elements(scanned[q]) \subseteq KeyCluesOf(q)
    /\ NoDuplicates(scanned[q])
    /\ Len(scanned[q]) <= Cardinality(KeyCluesOf(q))

\* C29: in every reachable state each scanned[q] holds only ids of clues whose
\* is_key includes q, each at most once, so its length never exceeds the
\* number of the quest's key clues; the same holds after markClueAsScanned of
\* main.js records any clue on such a state.
C29_QuestProgressBounded ==
  /\ QuestListsBounded(localStorage)
  /\ \A c \in ClueIds : QuestListsBounded(markClueAsScanned(localStorage, Clues[c]))

\* The main quest has both its key clues, one of them recorded twice over: by
\* a page load and again by an octogram solve under another character.
C29_Witness ==
  /\ MainQuest \in DOMAIN ScannedNow
  /\ Elements(ScannedNow[MainQuest]) = KeyCluesOf(MainQuest)
  /\ Len(ScannedNow[MainQuest]) = 2
  /\ event.op = "octogram"
  /\ event.discovery = "repeat"
  /\ event.clue = "K2"

----------------------------------------------------------------------------
(* C30: the octogram lock calls back once *)

\* C30: for one octogram lock, under every interleaving of symbol clicks
\* (select, deselect, reselect) with pending selection checks, failure resets
\* and the unlock delay, several checks pending at once included, onUnlock is
\* called at most once and at most one unlock delay is ever started.
C30_UnlockOnce ==
  /\ page.onUnlockCalls + page.unlocks <= 1
  /\ (page.onUnlockCalls + page.unlocks = 1) => page.unlocked
  /\ Count(UnlockedCluesNow, page.clue) = page.onUnlockCalls

\* The right four symbols were selected, one was taken out and put back, so
\* two checks were pending; the first has unlocked, the second is still
\* pending, and the unlock delay is running.
C30_Witness ==
  /\ page.unlocked
  /\ page.checks = 1
  /\ page.unlocks = 1
  /\ page.onUnlockCalls = 0

\* onUnlock has been called, after a failed attempt whose reset had cleared
\* the selection.
C30_CalledWitness ==
  /\ page.onUnlockCalls = 1
  /\ page.selected = {}
  /\ page.checks = 0
  /\ "K3" \in Elements(UnlockedCluesNow)

====
